---- MODULE Spec2Model ----
(***************************************************************************)
(* The in-process task orchestration core of codemate-hub:                 *)
(*   src/src/signals.py       the event bus (SignalEmitter)                *)
(*   src/src/task_manager.py  the task registry (TaskManager)              *)
(*   src/src/orchestrator.py  TaskExecutor and TaskOrchestrator            *)
(*                                                                         *)
(* Caller threads invoke the registry and the orchestrator; pool workers   *)
(* run the jobs submitted by execute_tasks_parallel.  Every section of     *)
(* code that runs under one lock is one step; what the code does after it  *)
(* has released the lock (the emit of the lifecycle signal) is a later     *)
(* step of the same actor.                                                 *)
(***************************************************************************)
EXTENDS Integers, Sequences, FiniteSets, TLC

VARIABLES
  tasks,         \* TaskManager._tasks: insertion ordered, task id = position
  clock,         \* datetime.utcnow(): the next timestamp handed out
  history,       \* SignalEmitter._signal_history
  emitting,      \* per actor: the signal it emits once it has left the registry lock
  call,          \* per caller thread: the frame of its API call
  ex,            \* per actor: the frame of TaskExecutor.execute_task
  queue,         \* ThreadPoolExecutor work queue (future handles, FIFO)
  futs,          \* the Future objects created by submit
  futures,       \* TaskOrchestrator._futures: task id -> future handle
  futures_lock,  \* TaskOrchestrator._futures_lock: its holder
  ncalls,        \* number of API calls made so far
  subscribers,   \* SignalEmitter._subscribers
  bus_lock,      \* SignalEmitter._lock: its holder
  registry_lock, \* TaskManager._lock: its holder
  em,            \* per actor: the stack of its SignalEmitter.emit frames
  delivered,     \* the callback invocations made so far, in order
  run,           \* per caller thread: the frame of run_until_complete
  orchestrators, \* per TaskOrchestrator instance: none, live or shut
  global_emitter,      \* signals._global_emitter
  global_emitter_lock, \* signals._global_emitter_lock: its holder
  emitters       \* the number of SignalEmitter instances made so far

bus == <<subscribers, bus_lock, registry_lock, em, delivered>>

world == <<orchestrators, global_emitter, global_emitter_lock, emitters>>

vars == <<tasks, clock, history, emitting, call, ex, queue, futs, futures,
          futures_lock, ncalls, bus, run, world>>

----------------------------------------------------------------------------
(* Bounds *)

MaxTasks == 3       \* tasks created, orchestrator specifications
MaxCalls == 3       \* API calls made, all threads together
MaxRegTasks == 2    \* tasks created, registry specifications
MaxIds == 3         \* length of the list given to execute_tasks_sequential
MaxParIds == 2      \* length of the list given to execute_tasks_parallel
MaxParCalls == 2    \* execute_tasks_parallel calls made
MaxParTasks == 1    \* tasks created, parallel specification
PoolSize == 2       \* max_parallel_tasks, the size of the thread pool
MaxBusCalls == 3    \* subscribe, unsubscribe and emit calls made by threads
MaxSubs == 2        \* subscriptions made by threads and still registered
MaxLockTasks == 1   \* tasks created, specification of the two locks
MaxRunTasks == 2    \* tasks in the registry that run_until_complete works on
MaxOrchCalls == 4     \* constructor, shutdown, subscribe and emit calls
MaxHist == 3          \* signals in the history that get_history is asked about
MaxLimit == 3         \* largest limit given to get_history
MaxGlobalCalls == 4   \* get_global_emitter and reset_global_emitter calls
MaxIterations == 3  \* max_iterations given to run_until_complete

(* Program constants *)

LOW == 1
NORMAL == 2
HIGH == 3
CRITICAL == 4
max_history == 1000

TaskPriority == {LOW, NORMAL, HIGH, CRITICAL}
TaskExecutionMode == {"sequential", "parallel"}
TaskStatus == {"pending", "running", "completed", "failed", "cancelled"}

Threads == {"t1", "t2"}
Workers == {"w" \o ToString(n) : n \in 1..PoolSize}
Actors == Threads \cup Workers
Orchestrators == {1, 2}
NoEmitter == 0

(* Task ids are handed out in creation order; UnknownId is an id no task has. *)
UnknownId == MaxTasks + MaxRegTasks + 1
NoFuture == 0
NoTime == <<>>
None == "None"
Free == "free"

(* threading.RLock: its holder and how many times the holder has taken it *)
RFree == [holder |-> Free, count |-> 0]
Acquirable(lock, a) == lock.holder \in {Free, a}
Acquired(lock, a) == [holder |-> a, count |-> lock.count + 1]
Released(lock) ==
  IF lock.count <= 1 THEN RFree ELSE [lock EXCEPT !.count = lock.count - 1]

(* What a callable bound to a task does when invoked. *)
Callables == {"ok", "raise"}
NoCallable == "none"
CallableValue == "val"
CallableError == "exc"

Results == {"r1", "r2"}
Errors == {"e1"}

NoSignal == [signal_type |-> "none", task_id |-> 0]

Signal(type, id) == [signal_type |-> type, task_id |-> id]

----------------------------------------------------------------------------
(* Task registry: src/src/task_manager.py *)

(* The fields of a task the registry and the orchestrator decide on; the   *)
(* id is the task's position in the registry, and task_func is what the    *)
(* orchestrator keeps in metadata["_task_func"].                           *)
TaskMetadata(priority, dependencies, execution_mode, task_func) ==
  [ priority       |-> priority,
    status         |-> "pending",
    dependencies   |-> dependencies,
    started_at     |-> NoTime,
    completed_at   |-> NoTime,
    error          |-> None,
    result         |-> None,
    execution_mode |-> execution_mode,
    task_func      |-> task_func ]

Exists(id) == id \in 1..Len(tasks)

(* is_ready without its test of the status *)
is_ready_any_status(task, completed_tasks) ==
  task.dependencies \subseteq completed_tasks

(* is_ready *)
is_ready(task, completed_tasks) ==
  IF task.status # "pending" THEN FALSE
  ELSE task.dependencies \subseteq completed_tasks

(* A sort that is not stable: the element goes in front of its equals. *)
RECURSIVE InsertBeforeEquals(_, _, _)
InsertBeforeEquals(tbl, sorted, id) ==
  IF sorted = <<>> THEN <<id>>
  ELSE IF tbl[Head(sorted)].priority > tbl[id].priority
       THEN <<Head(sorted)>> \o InsertBeforeEquals(tbl, Tail(sorted), id)
       ELSE <<id>> \o sorted

(* list.sort(key=priority, reverse=True): a stable insertion of each element *)
(* behind the elements whose key is not smaller.                            *)
RECURSIVE InsertByPriority(_, _, _)
InsertByPriority(tbl, sorted, id) ==
  IF sorted = <<>> THEN <<id>>
  ELSE IF tbl[Head(sorted)].priority >= tbl[id].priority
       THEN <<Head(sorted)>> \o InsertByPriority(tbl, Tail(sorted), id)
       ELSE <<id>> \o sorted

RECURSIVE SortByPriority(_, _)
SortByPriority(tbl, ids) ==
  IF ids = <<>> THEN <<>>
  ELSE InsertByPriority(tbl, SortByPriority(tbl, SubSeq(ids, 1, Len(ids) - 1)),
                        ids[Len(ids)])

(* get_ready_tasks, as the sequence of the ready tasks' ids *)
get_ready_tasks(tbl) ==
  LET completed_tasks == {tid \in 1..Len(tbl) : tbl[tid].status = "completed"}
      IsReady(tid) == is_ready(tbl[tid], completed_tasks)
      ready_tasks == SelectSeq([tid \in 1..Len(tbl) |-> tid], IsReady)
  IN SortByPriority(tbl, ready_tasks)

(* has_pending_tasks that looks for running tasks only *)
has_running_tasks ==
  \E tid \in 1..Len(tasks) : tasks[tid].status = "running"

(* has_pending_tasks *)
has_pending_tasks ==
  \E tid \in 1..Len(tasks) : tasks[tid].status \in {"pending", "running"}

(* start_task and complete_task without their test of the status *)
start_guard_any_status(id) == Exists(id)

complete_guard_not_pending(id) == Exists(id) /\ tasks[id].status # "pending"

(* The conditions under which the three transitions are taken. *)
start_guard(id) == Exists(id) /\ tasks[id].status = "pending"

complete_guard(id) == Exists(id) /\ tasks[id].status = "running"

fail_guard(id) == Exists(id)

(* The registry after the transition. *)
Started(id) ==
  [tasks EXCEPT ![id].status = "running", ![id].started_at = <<clock>>]

Completed(id, result) ==
  [tasks EXCEPT ![id].status = "completed", ![id].completed_at = <<clock>>,
                ![id].result = result]

Failed(id, error) ==
  [tasks EXCEPT ![id].status = "failed", ![id].completed_at = <<clock>>,
                ![id].error = error]

----------------------------------------------------------------------------
(* Event bus: src/src/signals.py *)

(* The history append that keeps the oldest entries instead of the newest *)
AppendedKeepOldest(hist, signal) ==
  LET h == Append(hist, signal)
  IN IF Len(h) > max_history THEN SubSeq(h, 1, max_history) ELSE h

(* emit: the history append with its cap *)
Appended(hist, signal) ==
  LET h == Append(hist, signal)
  IN IF Len(h) > max_history
     THEN SubSeq(h, Len(h) - max_history + 1, Len(h))
     ELSE h

----------------------------------------------------------------------------
(* Frames *)

IdleCall ==
  [ op |-> "idle", pc |-> "idle", n |-> 0, ids |-> <<>>, i |-> 1,
    results |-> <<>>,
    fut |-> NoFuture, ret |-> None, raised |-> FALSE, starts |-> <<>>,
    log |-> <<>>, failed_at |-> 0, submitted |-> {} ]

IdleEx ==
  [ pc |-> "idle", id |-> 0, fut |-> NoFuture, start_ok |-> FALSE,
    invoked |-> FALSE, result |-> None, raised |-> FALSE ]

IdleRun ==
  [ pc |-> "idle", iteration |-> 0, max_iterations |-> 0, ready |-> <<>>,
    early |-> FALSE ]

(* No orchestrator has been constructed and get_global_emitter has not    *)
(* been called: the registry, the bus and the executor are used as they   *)
(* are.                                                                    *)
WorldInit ==
  /\ orchestrators = [o \in Orchestrators |-> "none"]
  /\ global_emitter = NoEmitter
  /\ global_emitter_lock = Free
  /\ emitters = 0

(* One orchestrator has been constructed on the global emitter. *)
WorldOne ==
  /\ orchestrators = [o \in Orchestrators |->
                        IF o = 1 THEN "live" ELSE "none"]
  /\ global_emitter = 1
  /\ global_emitter_lock = Free
  /\ emitters = 1

(* The bus of a registry that has no orchestrator: nobody has subscribed. *)
BusInit ==
  /\ subscribers = <<>>
  /\ bus_lock = RFree
  /\ registry_lock = RFree
  /\ em = [a \in Actors |-> <<>>]
  /\ delivered = <<>>

(* A caller thread is between two API calls. *)
Idle(t) ==
  /\ call[t].pc \in {"idle", "returned"}
  /\ ex[t].pc = "idle"
  /\ emitting[t] = NoSignal

Init ==
  /\ tasks = <<>>
  /\ clock = 1
  /\ history = <<>>
  /\ emitting = [a \in Actors |-> NoSignal]
  /\ call = [t \in Threads |-> IdleCall]
  /\ ex = [a \in Actors |-> IdleEx]
  /\ queue = <<>>
  /\ futs = <<>>
  /\ futures = [id \in 1..UnknownId |-> NoFuture]
  /\ futures_lock = Free
  /\ ncalls = 0
  /\ BusInit
  /\ run = [t \in Threads |-> IdleRun]
  /\ WorldInit

----------------------------------------------------------------------------
(* Registry and orchestrator: creating a task *)

(* TaskOrchestrator.create_task over TaskManager.create_task; a task made  *)
(* through the registry alone has no callable bound (task_func = "none").  *)
(* The specifications that execute tasks create them while no call is in   *)
(* progress, so the registration and the binding of the callable that      *)
(* follows it are one step.                                                *)
CreateTask(priority, dependencies, execution_mode, task_func) ==
  /\ Len(tasks) < MaxTasks
  /\ tasks' = Append(tasks, TaskMetadata(priority, dependencies,
                                         execution_mode, task_func))
  /\ UNCHANGED <<clock, history, emitting, call, ex, queue, futs, futures,
                 futures_lock, ncalls>>
  /\ UNCHANGED <<bus, run, world>>

(* The SignalEmitter.emit that follows a registry transition.  The only    *)
(* subscribers are the orchestrator's own two, which log and read          *)
(* get_ready_tasks: they change none of the state.                         *)
Emit(a) ==
  /\ emitting[a] # NoSignal
  /\ history' = Appended(history, emitting[a])
  /\ emitting' = [emitting EXCEPT ![a] = NoSignal]
  /\ UNCHANGED <<tasks, clock, call, ex, queue, futs, futures, futures_lock,
                 ncalls>>
  /\ UNCHANGED <<bus, run, world>>

(* TaskManager.start_task called by a thread *)
StartTask(t, id) ==
  /\ Idle(t)
  /\ ncalls < MaxCalls
  /\ ncalls' = ncalls + 1
  /\ IF start_guard(id)
     THEN /\ tasks' = Started(id)
          /\ clock' = clock + 1
          /\ emitting' = [emitting EXCEPT ![t] = Signal("task_started", id)]
          /\ call' = [call EXCEPT ![t] =
                        [IdleCall EXCEPT !.op = "start", !.pc = "returned", !.n = ncalls',
                                         !.ids = <<id>>, !.ret = TRUE]]
     ELSE /\ call' = [call EXCEPT ![t] =
                        [IdleCall EXCEPT !.op = "start", !.pc = "returned", !.n = ncalls',
                                         !.ids = <<id>>, !.ret = FALSE]]
          /\ UNCHANGED <<tasks, clock, emitting>>
  /\ UNCHANGED <<history, ex, queue, futs, futures, futures_lock>>
  /\ UNCHANGED <<bus, run, world>>

(* TaskManager.complete_task called by a thread *)
CompleteTask(t, id, result) ==
  /\ Idle(t)
  /\ ncalls < MaxCalls
  /\ ncalls' = ncalls + 1
  /\ IF complete_guard(id)
     THEN /\ tasks' = Completed(id, result)
          /\ clock' = clock + 1
          /\ emitting' = [emitting EXCEPT ![t] = Signal("task_completed", id)]
          /\ call' = [call EXCEPT ![t] =
                        [IdleCall EXCEPT !.op = "complete", !.pc = "returned", !.n = ncalls',
                                         !.ids = <<id>>, !.ret = TRUE]]
     ELSE /\ call' = [call EXCEPT ![t] =
                        [IdleCall EXCEPT !.op = "complete", !.pc = "returned", !.n = ncalls',
                                         !.ids = <<id>>, !.ret = FALSE]]
          /\ UNCHANGED <<tasks, clock, emitting>>
  /\ UNCHANGED <<history, ex, queue, futs, futures, futures_lock>>
  /\ UNCHANGED <<bus, run, world>>

(* TaskManager.fail_task called by a thread *)
FailTask(t, id, error) ==
  /\ Idle(t)
  /\ ncalls < MaxCalls
  /\ ncalls' = ncalls + 1
  /\ IF fail_guard(id)
     THEN /\ tasks' = Failed(id, error)
          /\ clock' = clock + 1
          /\ emitting' = [emitting EXCEPT ![t] = Signal("task_failed", id)]
          /\ call' = [call EXCEPT ![t] =
                        [IdleCall EXCEPT !.op = "fail", !.pc = "returned", !.n = ncalls',
                                         !.ids = <<id>>, !.ret = TRUE]]
     ELSE /\ call' = [call EXCEPT ![t] =
                        [IdleCall EXCEPT !.op = "fail", !.pc = "returned", !.n = ncalls',
                                         !.ids = <<id>>, !.ret = FALSE]]
          /\ UNCHANGED <<tasks, clock, emitting>>
  /\ UNCHANGED <<history, ex, queue, futs, futures, futures_lock>>
  /\ UNCHANGED <<bus, run, world>>

(* TaskManager.get_ready_tasks called by a thread *)
GetReadyTasks(t) ==
  /\ Idle(t)
  /\ call' = [call EXCEPT ![t] =
                [IdleCall EXCEPT !.op = "readyTasks", !.pc = "returned",
                                 !.ret = get_ready_tasks(tasks)]]
  /\ UNCHANGED <<tasks, clock, history, emitting, ex, queue, futs, futures,
                 futures_lock, ncalls>>
  /\ UNCHANGED <<bus, run, world>>

(* The ids a caller can name: the tasks created so far and an unknown id. *)
CallIds == (1..Len(tasks)) \cup {UnknownId}

NextRegistry ==
  \/ /\ Len(tasks) < MaxRegTasks
     /\ CreateTask(NORMAL, {}, "sequential", NoCallable)
  \/ \E t \in Threads, id \in CallIds : StartTask(t, id)
  \/ \E t \in Threads, id \in CallIds, r \in Results : CompleteTask(t, id, r)
  \/ \E t \in Threads, id \in CallIds, e \in Errors : FailTask(t, id, e)
  \/ \E a \in Actors : Emit(a)

SpecRegistry == Init /\ [][NextRegistry]_vars

----------------------------------------------------------------------------
(* Properties of the registry's state machine *)

Terminal == {"completed", "failed", "cancelled"}

(* The signals of one kind for one task, emitted or about to be. *)
SignalCount(type, id) ==
  Cardinality({k \in 1..Len(history) : history[k] = Signal(type, id)})
  + Cardinality({a \in Actors : emitting[a] = Signal(type, id)})

(* The step is the registry call `op` made by thread t. *)
IsCall(t, op) ==
  /\ ncalls' = ncalls + 1
  /\ call'[t].n = ncalls'
  /\ call'[t].op = op

(* C1: once a task's status is completed, failed or cancelled it never     *)
(* changes again.                                                          *)
C1_TerminalNeverChanges ==
  [][\A id \in 1..Len(tasks) :
       tasks[id].status \in Terminal
         => tasks'[id].status = tasks[id].status]_vars

(* C2: each status change is one of pending->running, running->completed,  *)
(* running->failed, so no task is completed or failed without having been  *)
(* running first.                                                          *)
C2_OnlyLifecycleTransitions ==
  [][\A id \in 1..Len(tasks) :
       tasks'[id].status # tasks[id].status
         => <<tasks[id].status, tasks'[id].status>> \in
              { <<"pending", "running">>, <<"running", "completed">>,
                <<"running", "failed">> }]_vars

(* C3: start(id) returns true only if the task exists and is pending; of   *)
(* the calls racing for one pending task exactly one returns true and      *)
(* exactly one started signal is emitted, and a call that returns false    *)
(* leaves the task unchanged and emits nothing.                            *)
C3_StartStep ==
  \A t \in Threads :
    IsCall(t, "start") =>
      LET id == call'[t].ids[1]
      IN /\ call'[t].ret = (Exists(id) /\ tasks[id].status = "pending")
         /\ call'[t].ret = TRUE
              => /\ tasks'[id].status = "running"
                 /\ emitting'[t] = Signal("task_started", id)
                 /\ SignalCount("task_started", id) = 0
         /\ call'[t].ret = FALSE
              => /\ tasks' = tasks
                 /\ emitting' = emitting
                 /\ history' = history

C3_StartedOnce ==
  \A id \in 1..Len(tasks) :
    SignalCount("task_started", id) =
      (IF tasks[id].started_at # NoTime THEN 1 ELSE 0)

C3_StartExactlyOnce == [][C3_StartStep]_vars /\ []C3_StartedOnce

(* Two threads have called start on the same task: one won, one lost. *)
C3_Witness ==
  /\ call["t1"].op = "start" /\ call["t2"].op = "start"
  /\ call["t1"].ids = call["t2"].ids
  /\ Exists(call["t1"].ids[1])
  /\ call["t1"].ret # call["t2"].ret
  /\ emitting = [a \in Actors |-> NoSignal]

(* C4: complete(id, r) succeeds only if the task is running; a second      *)
(* complete returns false, leaves status, result and end time unchanged    *)
(* and emits no second completed signal.                                   *)
C4_CompleteStep ==
  \A t \in Threads :
    IsCall(t, "complete") =>
      LET id == call'[t].ids[1]
      IN /\ call'[t].ret = (Exists(id) /\ tasks[id].status = "running")
         /\ call'[t].ret = TRUE
              => /\ tasks'[id].status = "completed"
                 /\ tasks'[id].completed_at = <<clock>>
                 /\ emitting'[t] = Signal("task_completed", id)
                 /\ SignalCount("task_completed", id) = 0
         /\ call'[t].ret = FALSE
              => /\ tasks' = tasks
                 /\ emitting' = emitting
                 /\ history' = history

C4_CompletedOnce ==
  \A id \in 1..Len(tasks) : SignalCount("task_completed", id) <= 1

C4_CompleteTwice == [][C4_CompleteStep]_vars /\ []C4_CompletedOnce

(* A complete call has returned false on a task an earlier call completed. *)
C4_Witness ==
  \E t \in Threads :
    /\ call[t].op = "complete" /\ call[t].ret = FALSE
    /\ Exists(call[t].ids[1])
    /\ tasks[call[t].ids[1]].status = "completed"
    /\ tasks[call[t].ids[1]].result \in Results
    /\ \E k \in 1..Len(history) :
         history[k] = Signal("task_completed", call[t].ids[1])

----------------------------------------------------------------------------
(* Readiness: get_ready_tasks applied to the registries the transitions    *)
(* above can produce.  A registry of n tasks is n creations (any priority, *)
(* dependencies on earlier tasks or on an id no task has) followed by      *)
(* start, complete and fail calls that leave each task in any of the four  *)
(* statuses; the signal history is as clear_history() leaves it.           *)

ReadyStatuses == {"pending", "running", "completed", "failed"}

TaskIn(priority, dependencies, status) ==
  [ TaskMetadata(priority, dependencies, "sequential", NoCallable) EXCEPT
      !.status = status,
      !.started_at = IF status = "pending" THEN NoTime ELSE <<1>>,
      !.completed_at = IF status \in {"completed", "failed"} THEN <<2>>
                       ELSE NoTime,
      !.result = IF status = "completed" THEN "r1" ELSE None,
      !.error = IF status = "failed" THEN "e1" ELSE None ]

Registries ==
  UNION { { tbl \in [1..n -> [priority : TaskPriority,
                              dependencies : SUBSET ((1..n) \cup {UnknownId}),
                              status : ReadyStatuses]] :
              \A k \in 1..n :
                tbl[k].dependencies \subseteq ((1..(k-1)) \cup {UnknownId}) }
          : n \in 0..MaxRegTasks }

InitReady ==
  /\ \E tbl \in Registries :
       tasks = [k \in 1..Len(tbl) |->
                  TaskIn(tbl[k].priority, tbl[k].dependencies, tbl[k].status)]
  /\ clock = 3
  /\ history = <<>>
  /\ emitting = [a \in Actors |-> NoSignal]
  /\ call = [t \in Threads |-> IdleCall]
  /\ ex = [a \in Actors |-> IdleEx]
  /\ queue = <<>>
  /\ futs = <<>>
  /\ futures = [id \in 1..UnknownId |-> NoFuture]
  /\ futures_lock = Free
  /\ ncalls = 0
  /\ BusInit
  /\ run = [t \in Threads |-> IdleRun]
  /\ WorldInit

NextReady == \E t \in Threads : GetReadyTasks(t)

SpecReady == InitReady /\ [][NextReady]_vars

Range(seq) == {seq[k] : k \in 1..Len(seq)}

(* C5: readyTasks() contains T iff T is pending and every id in T's        *)
(* dependency set is the id of a completed task; on an empty registry it   *)
(* returns the empty sequence.                                             *)
C5_ReadyIffPendingAndDepsCompleted ==
  \A t \in Threads :
    call[t].op = "readyTasks" =>
      /\ \A id \in 1..Len(tasks) :
           (id \in Range(call[t].ret)) <=>
             /\ tasks[id].status = "pending"
             /\ \A d \in tasks[id].dependencies :
                  Exists(d) /\ tasks[d].status = "completed"
      /\ Range(call[t].ret) \subseteq 1..Len(tasks)
      /\ Len(call[t].ret) = Cardinality(Range(call[t].ret))
      /\ tasks = <<>> => call[t].ret = <<>>

(* readyTasks() returned a task that has a dependency.                     *)
C5_Witness ==
  \E t \in Threads :
    /\ call[t].op = "readyTasks"
    /\ \E id \in Range(call[t].ret) : tasks[id].dependencies # {}

(* C6: readyTasks() is sorted by descending priority, and ready tasks of   *)
(* equal priority appear in creation order.                                *)
C6_ReadySortedStable ==
  \A t \in Threads :
    call[t].op = "readyTasks" =>
      \A i, j \in 1..Len(call[t].ret) :
        i < j =>
          LET a == call[t].ret[i]
              b == call[t].ret[j]
          IN /\ tasks[a].priority >= tasks[b].priority
             /\ tasks[a].priority = tasks[b].priority => a < b

(* readyTasks() returned two tasks of equal priority.                      *)
C6_Witness ==
  \E t \in Threads :
    /\ call[t].op = "readyTasks"
    /\ Len(call[t].ret) = 2
    /\ tasks[call[t].ret[1]].priority = tasks[call[t].ret[2]].priority

----------------------------------------------------------------------------
(* TaskExecutor.execute_task: src/src/orchestrator.py, run by a caller     *)
(* thread or by a pool worker.  starts and log record, for a caller        *)
(* thread, the ids it passed to start_task and the callables it invoked.   *)

Noted(a, field, id) ==
  IF a \in Threads
  THEN [call EXCEPT ![a][field] = Append(call[a][field], id)]
  ELSE call

(* task = get_task(task_id); raise ValueError when there is none *)
ExecGet(a) ==
  /\ ex[a].pc = "get"
  /\ ex' = [ex EXCEPT ![a] =
              IF Exists(ex[a].id)
              THEN [ex[a] EXCEPT !.pc = "start"]
              ELSE [ex[a] EXCEPT !.pc = "done", !.raised = TRUE,
                                 !.result = "ValueError"]]
  /\ UNCHANGED <<tasks, clock, history, emitting, call, queue, futs, futures,
                 futures_lock, ncalls>>
  /\ UNCHANGED <<bus, run, world>>

(* self.task_manager.start_task(task_id): its return value is dropped *)
ExecStart(a) ==
  /\ ex[a].pc = "start"
  /\ LET id == ex[a].id
     IN /\ IF start_guard(id)
           THEN /\ tasks' = Started(id)
                /\ clock' = clock + 1
                /\ emitting' = [emitting EXCEPT
                                  ![a] = Signal("task_started", id)]
           ELSE UNCHANGED <<tasks, clock, emitting>>
        /\ ex' = [ex EXCEPT ![a].pc = "call",
                            ![a].start_ok = start_guard(id)]
        /\ call' = Noted(a, "starts", id)
  /\ UNCHANGED <<history, queue, futs, futures, futures_lock, ncalls>>
  /\ UNCHANGED <<bus, run, world>>

(* result = task_func(...): the callable returns its value or raises *)
ExecCall(a) ==
  /\ ex[a].pc = "call"
  /\ emitting[a] = NoSignal
  /\ LET id == ex[a].id
     IN /\ ex' = [ex EXCEPT ![a] =
                    IF tasks[id].task_func = "raise"
                    THEN [ex[a] EXCEPT !.pc = "fail", !.invoked = TRUE,
                                       !.result = CallableError]
                    ELSE [ex[a] EXCEPT !.pc = "complete", !.invoked = TRUE,
                                       !.result = CallableValue]]
        /\ call' = IF a \in Threads /\ tasks[id].task_func = "raise"
                   THEN [Noted(a, "log", id) EXCEPT
                           ![a].failed_at = call[a].i]
                   ELSE Noted(a, "log", id)
  /\ UNCHANGED <<tasks, clock, history, emitting, queue, futs, futures,
                 futures_lock, ncalls>>
  /\ UNCHANGED <<bus, run, world>>

(* self.task_manager.complete_task(task_id, result=result); return result *)
ExecComplete(a) ==
  /\ ex[a].pc = "complete"
  /\ LET id == ex[a].id
     IN IF complete_guard(id)
        THEN /\ tasks' = Completed(id, ex[a].result)
             /\ clock' = clock + 1
             /\ emitting' = [emitting EXCEPT
                               ![a] = Signal("task_completed", id)]
        ELSE UNCHANGED <<tasks, clock, emitting>>
  /\ ex' = [ex EXCEPT ![a].pc = "done"]
  /\ UNCHANGED <<history, call, queue, futs, futures, futures_lock, ncalls>>
  /\ UNCHANGED <<bus, run, world>>

(* except Exception: self.task_manager.fail_task(task_id, str(e)); raise *)
ExecFail(a) ==
  /\ ex[a].pc = "fail"
  /\ LET id == ex[a].id
     IN IF fail_guard(id)
        THEN /\ tasks' = Failed(id, ex[a].result)
             /\ clock' = clock + 1
             /\ emitting' = [emitting EXCEPT ![a] = Signal("task_failed", id)]
        ELSE UNCHANGED <<tasks, clock, emitting>>
  /\ ex' = [ex EXCEPT ![a].pc = "done", ![a].raised = TRUE]
  /\ UNCHANGED <<history, call, queue, futs, futures, futures_lock, ncalls>>
  /\ UNCHANGED <<bus, run, world>>

----------------------------------------------------------------------------
(* TaskOrchestrator.execute_task and execute_tasks_sequential *)

(* A thread calls execute_task(task_id). *)
ExecuteTask(t, id) ==
  /\ Idle(t)
  /\ ncalls < MaxCalls
  /\ ncalls' = ncalls + 1
  /\ call' = [call EXCEPT ![t] =
                [IdleCall EXCEPT !.op = "executeTask", !.pc = "lookup",
                                 !.n = ncalls', !.ids = <<id>>]]
  /\ UNCHANGED <<tasks, clock, history, emitting, ex, queue, futs, futures,
                 futures_lock>>
  /\ UNCHANGED <<bus, run, world>>

(* A thread calls execute_tasks_sequential(task_ids). *)
ExecuteTasksSequential(t, ids) ==
  /\ Idle(t)
  /\ ncalls < MaxCalls
  /\ ncalls' = ncalls + 1
  /\ call' = [call EXCEPT ![t] =
                [IdleCall EXCEPT !.op = "executeSequential",
                                 !.pc = IF ids = <<>> THEN "returned"
                                        ELSE "lookup",
                                 !.n = ncalls', !.ids = ids]]
  /\ UNCHANGED <<tasks, clock, history, emitting, ex, queue, futs, futures,
                 futures_lock>>
  /\ UNCHANGED <<bus, run, world>>

(* The loop with continue in the place of break *)
on_sequential_failure_continue(frame) ==
  [frame EXCEPT !.i = frame.i + 1,
                !.pc = IF frame.i + 1 > Len(frame.ids) THEN "returned"
                       ELSE "lookup"]

(* except Exception: break *)
on_sequential_failure(frame) == [frame EXCEPT !.pc = "returned"]

(* results[task_id] = result, and on to the next id of the loop *)
on_sequential_result(frame, result) ==
  [frame EXCEPT !.results = (frame.ids[frame.i] :> result) @@ frame.results,
                !.i = frame.i + 1,
                !.pc = IF frame.i + 1 > Len(frame.ids) THEN "returned"
                       ELSE "lookup"]

(* TaskOrchestrator.execute_task up to its call of the executor: the task  *)
(* and its callable are looked up, ValueError when either is missing.      *)
OrchExecuteTask(t) ==
  /\ call[t].pc = "lookup"
  /\ call[t].op \in {"executeTask", "executeSequential"}
  /\ LET id == call[t].ids[call[t].i]
     IN IF Exists(id) /\ tasks[id].task_func # NoCallable
        THEN /\ ex' = [ex EXCEPT ![t] = [IdleEx EXCEPT !.pc = "get",
                                                       !.id = id]]
             /\ call' = [call EXCEPT ![t].pc = "exec"]
        ELSE /\ call' = [call EXCEPT ![t] =
                           IF call[t].op = "executeTask"
                           THEN [call[t] EXCEPT !.pc = "returned",
                                                !.raised = TRUE,
                                                !.ret = "ValueError"]
                           ELSE on_sequential_failure(call[t])]
             /\ UNCHANGED ex
  /\ UNCHANGED <<tasks, clock, history, emitting, queue, futs, futures,
                 futures_lock, ncalls>>
  /\ UNCHANGED <<bus, run, world>>

(* execute_task returns the executor's result or re-raises its exception. *)
ExecuteTaskReturn(t) ==
  /\ call[t].op = "executeTask"
  /\ call[t].pc = "exec"
  /\ ex[t].pc = "done"
  /\ emitting[t] = NoSignal
  /\ call' = [call EXCEPT ![t].pc = "returned", ![t].ret = ex[t].result,
                          ![t].raised = ex[t].raised]
  /\ ex' = [ex EXCEPT ![t] = IdleEx]
  /\ UNCHANGED <<tasks, clock, history, emitting, queue, futs, futures,
                 futures_lock, ncalls>>
  /\ UNCHANGED <<bus, run, world>>

(* The body of the loop of execute_tasks_sequential after execute_task. *)
SeqCollect(t) ==
  /\ call[t].op = "executeSequential"
  /\ call[t].pc = "exec"
  /\ ex[t].pc = "done"
  /\ emitting[t] = NoSignal
  /\ call' = [call EXCEPT ![t] =
                IF ex[t].raised THEN on_sequential_failure(call[t])
                ELSE on_sequential_result(call[t], ex[t].result)]
  /\ ex' = [ex EXCEPT ![t] = IdleEx]
  /\ UNCHANGED <<tasks, clock, history, emitting, queue, futs, futures,
                 futures_lock, ncalls>>
  /\ UNCHANGED <<bus, run, world>>

RECURSIVE SeqsUpTo(_, _)
SeqsUpTo(S, n) ==
  IF n = 0 THEN {<<>>}
  ELSE LET shorter == SeqsUpTo(S, n - 1)
       IN shorter \cup {Append(q, x) : q \in shorter, x \in S}

(* No call is in progress.  A call names ids of tasks that exist when it   *)
(* is made, so a creation during a call changes nothing the call reads.    *)
Quiescent == \A t \in Threads : Idle(t)

ExecSteps ==
  \/ \E t \in Threads : OrchExecuteTask(t)
  \/ \E t \in Threads : ExecGet(t)
  \/ \E t \in Threads : ExecStart(t)
  \/ \E t \in Threads : ExecCall(t)
  \/ \E t \in Threads : ExecComplete(t)
  \/ \E t \in Threads : ExecFail(t)
  \/ \E a \in Actors : Emit(a)

NextExec ==
  \/ /\ Quiescent
     /\ \E f \in Callables \cup {NoCallable} :
          CreateTask(NORMAL, {}, "sequential", f)
  \/ \E t \in Threads, id \in CallIds : ExecuteTask(t, id)
  \/ \E t \in Threads : ExecuteTaskReturn(t)
  \/ ExecSteps

NextSeq ==
  \/ /\ Quiescent
     /\ \E f \in Callables \cup {NoCallable} :
          CreateTask(NORMAL, {}, "sequential", f)
  \/ /\ ncalls = 0
     /\ \E t \in Threads, ids \in SeqsUpTo(CallIds, MaxIds) :
          ExecuteTasksSequential(t, ids)
  \/ \E t \in Threads : SeqCollect(t)
  \/ ExecSteps

SpecSeq == Init /\ [][NextSeq]_vars

(* C7: executeSequential(ids) invokes the callables in list order on the   *)
(* calling thread and stops at the first task whose callable fails: no     *)
(* task after it is started (it stays pending), and the returned map holds *)
(* exactly the ids before the failing one, with no entry for the failing   *)
(* task or a later one.                                                    *)
C7_SequentialStopsAtFirstFailure ==
  /\ \A w \in Workers : ex[w].pc = "idle"
  /\ \A t \in Threads :
       call[t].op = "executeSequential" =>
         LET f == call[t]
             k == f.failed_at
         IN /\ f.starts = SubSeq(f.ids, 1, Len(f.starts))
            /\ f.log = SubSeq(f.ids, 1, Len(f.log))
            /\ k > 0 =>
                 /\ Len(f.starts) = k
                 /\ Len(f.log) = k
                 /\ DOMAIN f.results = {f.ids[j] : j \in 1..(k - 1)}
                 /\ f.ids[k] \notin DOMAIN f.results
                 /\ \A j \in (k + 1)..Len(f.ids) :
                      f.ids[j] \notin {f.ids[m] : m \in 1..k} =>
                        /\ f.ids[j] \notin DOMAIN f.results
                        /\ Exists(f.ids[j]) =>
                             tasks[f.ids[j]].status = "pending"

(* executeSequential([A, B, C]) has returned after B's callable raised. *)
C7_Witness ==
  \E t \in Threads :
    /\ call[t].op = "executeSequential"
    /\ call[t].pc = "returned"
    /\ call[t].ids = <<1, 2, 3>>
    /\ call[t].failed_at = 2
    /\ call[t].log = <<1, 2>>
    /\ DOMAIN call[t].results = {1}
    /\ tasks[1].status = "completed"
    /\ tasks[2].status = "failed"
    /\ tasks[3].status = "pending"

(* C10: executeTask(id) invokes the bound callable only when its own       *)
(* Registry.start(id) succeeded; when start fails it does not invoke the   *)
(* callable and does not change the task's status, result or error.        *)
C10_Step(t) ==
  ( /\ call[t].op = "executeTask"
    /\ ex[t].pc \in {"call", "complete", "fail"}
    /\ ~ex[t].start_ok
    /\ ex'[t] # ex[t] )
  => /\ ~ex'[t].invoked
     /\ tasks' = tasks

C10_CallableOnlyAfterStart == [][\A t \in Threads : C10_Step(t)]_vars


SpecExec == Init /\ [][NextExec]_vars

----------------------------------------------------------------------------
(* TaskOrchestrator.execute_tasks_parallel and the thread pool.  Each      *)
(* iteration of its three loops is a step: the loops that submit and that  *)
(* clean up hold _futures_lock from their first iteration to their last,   *)
(* the loop that waits reads _futures without the lock.  submitted         *)
(* records the futures the call itself created.                            *)

Future(id, t) ==
  [ task_id |-> id, state |-> "pending", raised |-> FALSE, result |-> None,
    owner |-> t ]

(* A thread calls execute_tasks_parallel(task_ids). *)
ExecuteTasksParallel(t, ids) ==
  /\ Idle(t)
  /\ ncalls < MaxParCalls
  /\ ncalls' = ncalls + 1
  /\ call' = [call EXCEPT ![t] =
                [IdleCall EXCEPT !.op = "executeParallel", !.pc = "submit",
                                 !.n = ncalls', !.ids = ids]]
  /\ UNCHANGED <<tasks, clock, history, emitting, ex, queue, futs, futures,
                 futures_lock>>
  /\ UNCHANGED <<bus, run, world>>

(* The lock of a loop run under `with self._futures_lock`: taken before    *)
(* the first iteration, released after the last.                           *)
LockHeldFor(t) ==
  IF call[t].i = 1 THEN futures_lock = Free ELSE futures_lock = t

LockAfter(t) == IF call[t].i >= Len(call[t].ids) THEN Free ELSE t

(* The frame after one iteration of a loop over task_ids. *)
Advance(frame, again, after) ==
  IF frame.i >= Len(frame.ids)
  THEN [frame EXCEPT !.i = 1, !.pc = after, !.fut = NoFuture]
  ELSE [frame EXCEPT !.i = frame.i + 1, !.pc = again, !.fut = NoFuture]

(* for task_id in task_ids: ... self._futures[task_id] = submit(...) *)
ParSubmit(t) ==
  /\ call[t].op = "executeParallel"
  /\ call[t].pc = "submit"
  /\ LockHeldFor(t)
  /\ futures_lock' = LockAfter(t)
  /\ IF call[t].i <= Len(call[t].ids)
        /\ Exists(call[t].ids[call[t].i])
        /\ tasks[call[t].ids[call[t].i]].task_func # NoCallable
     THEN LET id == call[t].ids[call[t].i]
              f == Len(futs) + 1
          IN /\ futs' = Append(futs, Future(id, t))
             /\ queue' = Append(queue, f)
             /\ futures' = [futures EXCEPT ![id] = f]
             /\ call' = [call EXCEPT ![t] =
                           [Advance(call[t], "submit", "get") EXCEPT
                              !.submitted = call[t].submitted \cup {f}]]
     ELSE /\ call' = [call EXCEPT ![t] = Advance(call[t], "submit", "get")]
          /\ UNCHANGED <<futs, queue, futures>>
  /\ UNCHANGED <<tasks, clock, history, emitting, ex, ncalls>>
  /\ UNCHANGED <<bus, run, world>>

(* future = self._futures.get(task_id), read without the lock *)
ParGet(t) ==
  /\ call[t].op = "executeParallel"
  /\ call[t].pc = "get"
  /\ call' = [call EXCEPT ![t] =
                IF call[t].i <= Len(call[t].ids)
                   /\ futures[call[t].ids[call[t].i]] # NoFuture
                THEN [call[t] EXCEPT !.pc = "result",
                                     !.fut = futures[call[t].ids[call[t].i]]]
                ELSE Advance(call[t], "get", "cleanup")]
  /\ UNCHANGED <<tasks, clock, history, emitting, ex, queue, futs, futures,
                 futures_lock, ncalls>>
  /\ UNCHANGED <<bus, run, world>>

(* results[task_id] = future.result(), None when it raises *)
ParResult(t) ==
  /\ call[t].op = "executeParallel"
  /\ call[t].pc = "result"
  /\ futs[call[t].fut].state = "done"
  /\ call' = [call EXCEPT ![t] =
                [Advance(call[t], "get", "cleanup") EXCEPT
                   !.results = (call[t].ids[call[t].i] :>
                                  (IF futs[call[t].fut].raised THEN None
                                   ELSE futs[call[t].fut].result))
                               @@ call[t].results]]
  /\ UNCHANGED <<tasks, clock, history, emitting, ex, queue, futs, futures,
                 futures_lock, ncalls>>
  /\ UNCHANGED <<bus, run, world>>

(* for task_id in task_ids: self._futures.pop(task_id, None); return *)
ParCleanup(t) ==
  /\ call[t].op = "executeParallel"
  /\ call[t].pc = "cleanup"
  /\ LockHeldFor(t)
  /\ futures_lock' = LockAfter(t)
  /\ futures' = IF call[t].i <= Len(call[t].ids)
                THEN [futures EXCEPT ![call[t].ids[call[t].i]] = NoFuture]
                ELSE futures
  /\ call' = [call EXCEPT ![t] = Advance(call[t], "cleanup", "returned")]
  /\ UNCHANGED <<tasks, clock, history, emitting, ex, queue, futs, ncalls>>
  /\ UNCHANGED <<bus, run, world>>

(* A pool whose threads take a submission while they run one *)
worker_free_always(w) == TRUE

(* ThreadPoolExecutor(max_workers=max_parallel_tasks): each of the pool's  *)
(* threads runs one submission at a time.                                  *)
worker_free(w) == ex[w].pc = "idle"

(* A pool worker takes the oldest submission and runs execute_task. *)
WorkerTake(w) ==
  /\ worker_free(w)
  /\ queue # <<>>
  /\ queue' = Tail(queue)
  /\ futs' = [futs EXCEPT ![Head(queue)].state = "running"]
  /\ ex' = [ex EXCEPT ![w] = [IdleEx EXCEPT !.pc = "get",
                                            !.id = futs[Head(queue)].task_id,
                                            !.fut = Head(queue)]]
  /\ UNCHANGED <<tasks, clock, history, emitting, call, futures, futures_lock,
                 ncalls>>
  /\ UNCHANGED <<bus, run, world>>

(* The worker sets the future's result or exception. *)
WorkerFinish(w) ==
  /\ ex[w].pc = "done"
  /\ emitting[w] = NoSignal
  /\ futs' = [futs EXCEPT ![ex[w].fut].state = "done",
                          ![ex[w].fut].raised = ex[w].raised,
                          ![ex[w].fut].result = ex[w].result]
  /\ ex' = [ex EXCEPT ![w] = IdleEx]
  /\ UNCHANGED <<tasks, clock, history, emitting, call, queue, futures,
                 futures_lock, ncalls>>
  /\ UNCHANGED <<bus, run, world>>

NextPar ==
  \/ /\ Quiescent
     /\ Len(tasks) < MaxParTasks
     /\ \E f \in Callables \cup {NoCallable} :
          CreateTask(NORMAL, {}, "parallel", f)
  \/ \E t \in Threads, ids \in SeqsUpTo(CallIds, MaxParIds) :
       ExecuteTasksParallel(t, ids)
  \/ \E t \in Threads : ParSubmit(t)
  \/ \E t \in Threads : ParGet(t)
  \/ \E t \in Threads : ParResult(t)
  \/ \E t \in Threads : ParCleanup(t)
  \/ \E w \in Workers : WorkerTake(w)
  \/ \E w \in Workers : ExecGet(w)
  \/ \E w \in Workers : ExecStart(w)
  \/ \E w \in Workers : ExecCall(w)
  \/ \E w \in Workers : ExecComplete(w)
  \/ \E w \in Workers : ExecFail(w)
  \/ \E w \in Workers : WorkerFinish(w)
  \/ \E a \in Actors : Emit(a)

SpecPar == Init /\ [][NextPar]_vars

(* C8: executeParallel(ids) returns a map whose key set is exactly the set *)
(* of submitted ids, with an entry also for an id that has no registered   *)
(* task or no bound callable.                                              *)
C8_OneEntryPerId ==
  \A t \in Threads :
    (call[t].op = "executeParallel" /\ call[t].pc = "returned")
      => DOMAIN call[t].results = Range(call[t].ids)

(* C9: when executeParallel returns, every task it submitted to the pool   *)
(* has resolved: its submission is done and the task is neither pending    *)
(* nor running.                                                            *)
C9_JoinAll ==
  \A t \in Threads :
    (call[t].op = "executeParallel" /\ call[t].pc = "returned")
      => \A f \in call[t].submitted :
           /\ futs[f].state = "done"
           /\ tasks[futs[f].task_id].status \notin {"pending", "running"}

----------------------------------------------------------------------------
(* The event bus step by step: src/src/signals.py.  emit is the section    *)
(* under self._lock, the exit from that section, and one step for each     *)
(* callback of the loop that follows; a callback that emits opens a new    *)
(* emit frame on top of the one that invoked it.                           *)

SignalType ==
  { "task_started", "task_completed", "task_failed", "task_cancelled",
    "agent_ready", "agent_busy" }

(* Optional[str]: NoFilter is None, EmptyId is the empty string, every     *)
(* other value is a non-empty id.  Truthy is Python's test `if x`.         *)
NoFilter == 0 - 1
EmptyId == 0
Truthy(x) == x # NoFilter /\ x # EmptyId

(* What a subscriber's callback does with the signal it is given. *)
CallbackKinds == {"record", "raise", "emit", "subscribe", "unsubscribe"}

Subscription(subscriber_id, signal_types, callback, task_filter) ==
  [ subscriber_id |-> subscriber_id, signal_types |-> signal_types,
    callback |-> callback, task_filter |-> task_filter ]

(* A payload built by a caller of emit; the timestamp tells two payloads   *)
(* of the same type and task apart.                                        *)
SignalPayload(type, id, timestamp) ==
  [ signal_type |-> type, task_id |-> id, timestamp |-> timestamp ]

(* _find_matching_subscribers *)
find_matching_subscribers(subs, signal) ==
  LET Matching(sub) ==
        /\ signal.signal_type \in sub.signal_types
        /\ ~(Truthy(sub.task_filter) /\ sub.task_filter # signal.task_id)
  IN SelectSeq(subs, Matching)

(* emit with the callbacks inside the `with self._lock` block *)
emit_lock_kept(lock) == lock

(* The bus lock when emit leaves its `with self._lock` block. *)
emit_lock_exit(lock) == Released(lock)

(* A callback error that leaves the loop of emit *)
on_callback_error_propagate(frame) ==
  [frame EXCEPT !.k = Len(frame.matching) + 1, !.raised = TRUE]

(* except Exception: logger.error(...), and on to the next subscriber *)
on_callback_error(frame) == [frame EXCEPT !.k = frame.k + 1]

EmitFrame(signal) ==
  [ signal |-> signal, pc |-> "lock", matching |-> <<>>, snapshot |-> <<>>,
    k |-> 1, raised |-> FALSE ]

Top(a) == em[a][Len(em[a])]
SetTop(a, frame) == [em EXCEPT ![a] = [em[a] EXCEPT ![Len(em[a])] = frame]]
Push(stack, frame) == Append(stack, frame)
Pop(stack) == SubSeq(stack, 1, Len(stack) - 1)

Invocation(a, frame) ==
  [ sub |-> frame.matching[frame.k], signal |-> frame.signal, by |-> a ]

(* A thread calls emitter.emit(SignalPayload(type, id)). *)
BusEmit(t, type, id) ==
  /\ Idle(t)
  /\ em[t] = <<>>
  /\ ncalls < MaxBusCalls
  /\ ncalls' = ncalls + 1
  /\ clock' = clock + 1
  /\ em' = [em EXCEPT ![t] = <<EmitFrame(SignalPayload(type, id, clock))>>]
  /\ call' = [call EXCEPT ![t] =
                [IdleCall EXCEPT !.op = "emit", !.pc = "emit", !.n = ncalls']]
  /\ UNCHANGED <<tasks, history, emitting, ex, queue, futs, futures,
                 futures_lock, subscribers, bus_lock, registry_lock,
                 delivered, run, world>>

(* with self._lock: the history append and the search for the subscribers *)
EmitLock(a) ==
  /\ em[a] # <<>>
  /\ Top(a).pc = "lock"
  /\ Acquirable(bus_lock, a)
  /\ bus_lock' = Acquired(bus_lock, a)
  /\ history' = Appended(history, Top(a).signal)
  /\ em' = SetTop(a, [Top(a) EXCEPT
                        !.pc = "unlock",
                        !.snapshot = subscribers,
                        !.matching = find_matching_subscribers(
                                       subscribers, Top(a).signal)])
  /\ UNCHANGED <<tasks, clock, emitting, call, ex, queue, futs, futures,
                 futures_lock, ncalls, subscribers, registry_lock, delivered,
                 run, world>>

(* the end of the `with self._lock` block *)
EmitUnlock(a) ==
  /\ em[a] # <<>>
  /\ Top(a).pc = "unlock"
  /\ bus_lock' = emit_lock_exit(bus_lock)
  /\ em' = SetTop(a, [Top(a) EXCEPT !.pc = "deliver"])
  /\ UNCHANGED <<tasks, clock, history, emitting, call, ex, queue, futs,
                 futures, futures_lock, ncalls, subscribers, registry_lock,
                 delivered, run, world>>

(* for subscription in matching_subscribers: subscription.callback(signal) *)
(* for a callback that returns or raises at once                           *)
Deliver(a) ==
  /\ em[a] # <<>>
  /\ Top(a).pc = "deliver"
  /\ Top(a).k <= Len(Top(a).matching)
  /\ Top(a).matching[Top(a).k].callback \in {"record", "raise"}
  /\ delivered' = Append(delivered, Invocation(a, Top(a)))
  /\ em' = SetTop(a, IF Top(a).matching[Top(a).k].callback = "raise"
                     THEN on_callback_error(Top(a))
                     ELSE [Top(a) EXCEPT !.k = Top(a).k + 1])
  /\ UNCHANGED <<tasks, clock, history, emitting, call, ex, queue, futs,
                 futures, futures_lock, ncalls, subscribers, bus_lock,
                 registry_lock, run, world>>

(* ... for a callback that calls emit on the same bus *)
DeliverEmit(a) ==
  /\ em[a] # <<>>
  /\ Top(a).pc = "deliver"
  /\ Top(a).k <= Len(Top(a).matching)
  /\ Top(a).matching[Top(a).k].callback = "emit"
  /\ delivered' = Append(delivered, Invocation(a, Top(a)))
  /\ clock' = clock + 1
  /\ em' = [em EXCEPT ![a] =
              Push(SetTop(a, [Top(a) EXCEPT !.k = Top(a).k + 1])[a],
                   EmitFrame(SignalPayload("agent_busy",
                                           Top(a).signal.task_id, clock)))]
  /\ UNCHANGED <<tasks, history, emitting, call, ex, queue, futs, futures,
                 futures_lock, ncalls, subscribers, bus_lock, registry_lock,
                 run, world>>

(* ... for a callback that calls subscribe, unsubscribe or the registry:   *)
(* the callback is entered and stands before the lock of what it calls     *)
DeliverEnter(a) ==
  /\ em[a] # <<>>
  /\ Top(a).pc = "deliver"
  /\ Top(a).k <= Len(Top(a).matching)
  /\ Top(a).matching[Top(a).k].callback \in
       {"subscribe", "unsubscribe", "ready"}
  /\ delivered' = Append(delivered, Invocation(a, Top(a)))
  /\ em' = SetTop(a, [Top(a) EXCEPT !.pc = "callback"])
  /\ UNCHANGED <<tasks, clock, history, emitting, call, ex, queue, futs,
                 futures, futures_lock, ncalls, subscribers, bus_lock,
                 registry_lock, run, world>>

(* subscribe under self._lock *)
Subscribed(subs, sub) == Append(subs, sub)

(* unsubscribe under self._lock *)
Unsubscribed(subs, subscriber_id) ==
  LET Kept(sub) == sub.subscriber_id # subscriber_id
  IN SelectSeq(subs, Kept)

(* The callback subscribes a recorder under its own id, or unsubscribes    *)
(* its own id, and returns.                                                *)
CallbackBus(a) ==
  /\ em[a] # <<>>
  /\ Top(a).pc = "callback"
  /\ Top(a).matching[Top(a).k].callback \in {"subscribe", "unsubscribe"}
  /\ Acquirable(bus_lock, a)
  /\ LET sub == Top(a).matching[Top(a).k]
     IN subscribers' =
          IF sub.callback = "subscribe"
          THEN Subscribed(subscribers,
                          Subscription(sub.subscriber_id, {"agent_busy"},
                                       "record", NoFilter))
          ELSE Unsubscribed(subscribers, sub.subscriber_id)
  /\ em' = SetTop(a, [Top(a) EXCEPT !.pc = "deliver", !.k = Top(a).k + 1])
  /\ UNCHANGED <<tasks, clock, history, emitting, call, ex, queue, futs,
                 futures, futures_lock, ncalls, bus_lock, registry_lock,
                 delivered, run, world>>

(* emit returns: to the callback that called it, or to the thread *)
EmitReturn(a) ==
  /\ em[a] # <<>>
  /\ Top(a).pc = "deliver"
  /\ Top(a).k > Len(Top(a).matching)
  /\ em' = [em EXCEPT ![a] = Pop(em[a])]
  /\ call' = IF a \in Threads /\ Len(em[a]) = 1 /\ call[a].pc = "emit"
             THEN [call EXCEPT ![a].pc = "returned",
                               ![a].raised = Top(a).raised]
             ELSE call
  /\ UNCHANGED <<tasks, clock, history, emitting, ex, queue, futs, futures,
                 futures_lock, ncalls, subscribers, bus_lock, registry_lock,
                 delivered, run, world>>

(* A thread calls subscribe(subscriber_id, signal_types, callback, filter). *)
Subscribe(t, sub) ==
  /\ Idle(t)
  /\ em[t] = <<>>
  /\ ncalls < MaxBusCalls
  /\ Len(subscribers) < MaxSubs
  /\ Acquirable(bus_lock, t)
  /\ ncalls' = ncalls + 1
  /\ subscribers' = Subscribed(subscribers, sub)
  /\ call' = [call EXCEPT ![t] =
                [IdleCall EXCEPT !.op = "subscribe", !.pc = "returned",
                                 !.n = ncalls', !.ret = sub.subscriber_id]]
  /\ UNCHANGED <<tasks, clock, history, emitting, ex, queue, futs, futures,
                 futures_lock, bus_lock, registry_lock, em, delivered, run,
                 world>>

(* A thread calls unsubscribe(subscriber_id). *)
Unsubscribe(t, subscriber_id) ==
  /\ Idle(t)
  /\ em[t] = <<>>
  /\ ncalls < MaxBusCalls
  /\ Acquirable(bus_lock, t)
  /\ ncalls' = ncalls + 1
  /\ subscribers' = Unsubscribed(subscribers, subscriber_id)
  /\ call' = [call EXCEPT ![t] =
                [IdleCall EXCEPT !.op = "unsubscribe", !.pc = "returned",
                                 !.n = ncalls',
                                 !.ret = (Len(subscribers') < Len(subscribers))]]
  /\ UNCHANGED <<tasks, clock, history, emitting, ex, queue, futs, futures,
                 futures_lock, bus_lock, registry_lock, em, delivered, run,
                 world>>

(* The inputs of the bus specification. *)
SubscriberIds == {"s1", "s2"}
AllKinds == {"task_started", "task_completed", "agent_busy"}
Filters == {NoFilter, EmptyId, 1}
EmitTypes == {"task_started", "task_completed"}
EmitSignals == {<<"task_started", 1>>, <<"task_completed", 1>>,
                <<"task_completed", 2>>}

(* Subscriber s1 records: the completed signals with any filter, or the    *)
(* signals of every kind.  Subscriber s2 raises on every kind, or answers  *)
(* a completed signal by calling the bus (a callback that emits agent_busy *)
(* is not subscribed to agent_busy, its recursion would not end).          *)
Subscriptions ==
  { Subscription("s1", {"task_completed"}, "record", flt) : flt \in Filters }
  \cup
  { Subscription(sid, AllKinds, cb, NoFilter) :
      <<sid, cb>> \in {<<"s1", "record">>, <<"s2", "raise">>} }
  \cup
  { Subscription("s2", {"task_completed"}, cb, NoFilter) :
      cb \in {"emit", "subscribe", "unsubscribe"} }

EmitSteps ==
  \/ \E a \in Actors : EmitLock(a)
  \/ \E a \in Actors : EmitUnlock(a)
  \/ \E a \in Actors : Deliver(a)
  \/ \E a \in Actors : DeliverEmit(a)
  \/ \E a \in Actors : DeliverEnter(a)
  \/ \E a \in Actors : CallbackBus(a)
  \/ \E a \in Actors : EmitReturn(a)

NextBus ==
  \/ \E t \in Threads, sub \in Subscriptions : Subscribe(t, sub)
  \/ \E t \in Threads, sid \in SubscriberIds : Unsubscribe(t, sid)
  \/ \E t \in Threads, sig \in EmitSignals : BusEmit(t, sig[1], sig[2])
  \/ EmitSteps

SpecBus == Init /\ [][NextBus]_vars

----------------------------------------------------------------------------
(* Properties of the event bus *)

(* The subscriptions invoked so far with one signal, in invocation order. *)
InvokedFor(signal) ==
  LET With(inv) == inv.signal = signal
      invs == SelectSeq(delivered, With)
  IN [k \in 1..Len(invs) |-> invs[k].sub]

(* The frames of the emits in progress. *)
Frames == UNION { Range(em[a]) : a \in Actors }

(* The matching rule: the kind is one of the subscriber's kinds, and the   *)
(* subscriber has no task filter or its filter is the signal's task.       *)
RuleMatches(sub, signal) ==
  /\ signal.signal_type \in sub.signal_types
  /\ (sub.task_filter = NoFilter \/ sub.task_filter = signal.task_id)

RuleMatching(subs, signal) ==
  LET Matching(sub) == RuleMatches(sub, signal)
  IN SelectSeq(subs, Matching)

(* C11: emit(e) invokes, once each, the callbacks of the subscriptions     *)
(* registered at the time of the emit whose kinds contain e's kind and     *)
(* whose task filter is absent or equal to e's task, and no other: at any  *)
(* moment the callbacks invoked are the first of these, and all of them    *)
(* when the loop of emit is over.                                          *)
C11_EmitInvokesExactlyMatching ==
  \A f \in Frames :
    f.pc \in {"deliver", "callback"} =>
      LET invoked == InvokedFor(f.signal)
          due == RuleMatching(f.snapshot, f.signal)
      IN /\ Len(invoked) <= Len(due)
         /\ invoked = SubSeq(due, 1, Len(invoked))
         /\ (f.pc = "deliver" /\ f.k > Len(f.matching)) => invoked = due

(* The position of a signal in the history. *)
HistoryPos(signal) == CHOOSE k \in 1..Len(history) : history[k] = signal

(* C12: a subscriber receives the signals that match it in the order in    *)
(* which they were appended to the history.                                *)
C12_DeliveredInEmissionOrder ==
  \A i, j \in 1..Len(delivered) :
    (i < j /\ delivered[i].sub.subscriber_id = delivered[j].sub.subscriber_id)
      => HistoryPos(delivered[i].signal) <= HistoryPos(delivered[j].signal)

(* C13: a callback that raises does not end the loop of emit (every        *)
(* subscriber found for the signal is still invoked), its exception        *)
(* reaches neither the frame of emit nor the caller, and the step that     *)
(* invokes it leaves the subscriber list and the history as they were.     *)
C13_RaiseStep ==
  (Len(delivered') = Len(delivered) + 1
     /\ delivered'[Len(delivered')].sub.callback = "raise")
  => /\ subscribers' = subscribers
     /\ history' = history

C13_Isolated ==
  /\ \A f \in Frames :
       /\ ~f.raised
       /\ f.pc = "deliver" => Len(InvokedFor(f.signal)) = f.k - 1
       /\ f.pc = "callback" => Len(InvokedFor(f.signal)) = f.k
  /\ \A t \in Threads : call[t].op = "emit" => ~call[t].raised

C13_CallbackErrorIsolated == [][C13_RaiseStep]_vars /\ []C13_Isolated

(* emit has returned after its first subscriber raised and its second was  *)
(* invoked all the same.                                                   *)
C13_Witness ==
  \E t \in Threads :
    /\ call[t].op = "emit" /\ call[t].pc = "returned" /\ ~call[t].raised
    /\ Len(delivered) = 2
    /\ delivered[1].signal = delivered[2].signal
    /\ delivered[1].sub.callback = "raise"
    /\ Len(subscribers) = 2
    /\ Len(history) = 1

(* The actor stands before a lock of the bus that another actor holds. *)
WaitsForBus(a) ==
  /\ em[a] # <<>>
  /\ \/ Top(a).pc = "lock"
     \/ /\ Top(a).pc = "callback"
        /\ Top(a).matching[Top(a).k].callback \in {"subscribe", "unsubscribe"}
  /\ ~Acquirable(bus_lock, a)

(* C15: no callback runs while its thread holds the bus lock, and a        *)
(* callback that calls emit, subscribe or unsubscribe is never stuck: the  *)
(* holder of the lock it waits for is inside the locked section of emit,   *)
(* which it leaves in one step.                                            *)
C15_NoCallbackUnderBusLock ==
  /\ \A a \in Actors :
       (em[a] # <<>> /\ Top(a).pc \in {"deliver", "callback"})
         => bus_lock.holder # a
  /\ \A a \in Actors :
       WaitsForBus(a) =>
         /\ bus_lock.holder \in Actors
         /\ em[bus_lock.holder] # <<>>
         /\ Top(bus_lock.holder).pc = "unlock"

(* emit has returned after one of its callbacks emitted and another one    *)
(* unsubscribed or subscribed.                                             *)
C15_Witness ==
  /\ \A a \in Actors : em[a] = <<>>
  /\ bus_lock = RFree
  /\ \E i, j \in 1..Len(delivered) :
       /\ delivered[i].signal = delivered[j].signal
       /\ delivered[i].sub.callback = "emit"
       /\ delivered[j].sub.callback \in {"subscribe", "unsubscribe"}
  /\ \E k \in 1..Len(history) : history[k].signal_type = "agent_busy"

----------------------------------------------------------------------------
(* The history and its cap.  The bus has a history of max_history - 1      *)
(* signals behind it, or none; threads emit and read the history.          *)

NoType == "none"

(* reversed(seq) *)
Reverse(seq) == [k \in 1..Len(seq) |-> seq[Len(seq) + 1 - k]]

(* seq[-limit:] *)
LastSlice(seq, limit) ==
  IF limit > 0
  THEN SubSeq(seq, IF Len(seq) > limit THEN Len(seq) - limit + 1 ELSE 1,
              Len(seq))
  ELSE SubSeq(seq, (IF 0 - limit > Len(seq) THEN Len(seq) ELSE 0 - limit) + 1,
              Len(seq))

(* get_history *)
get_history(hist, signal_type, task_id, limit) ==
  LET OfType(signal) == signal.signal_type = signal_type
      OfTask(signal) == signal.task_id = task_id
      h1 == IF signal_type # NoType THEN SelectSeq(hist, OfType) ELSE hist
      h2 == IF Truthy(task_id) THEN SelectSeq(h1, OfTask) ELSE h1
  IN Reverse(LastSlice(h2, limit))

(* A thread calls get_history(signal_type, task_id, limit). *)
GetHistory(t, signal_type, task_id, limit) ==
  /\ Idle(t)
  /\ em[t] = <<>>
  /\ Acquirable(bus_lock, t)
  /\ call' = [call EXCEPT ![t] =
                [IdleCall EXCEPT
                   !.op = "history", !.pc = "returned",
                   !.ids = <<signal_type, task_id, limit>>,
                   !.ret = get_history(history, signal_type, task_id, limit)]]
  /\ UNCHANGED <<tasks, clock, history, emitting, ex, queue, futs, futures,
                 futures_lock, ncalls, bus, run, world>>

HistoryFill(n) == [k \in 1..n |-> SignalPayload("agent_ready", 1, k - n)]

HistoryLimits == {1, max_history}

InitHistory ==
  /\ tasks = <<>>
  /\ clock = 1
  /\ history \in {HistoryFill(0), HistoryFill(max_history - 1)}
  /\ emitting = [a \in Actors |-> NoSignal]
  /\ call = [t \in Threads |-> IdleCall]
  /\ ex = [a \in Actors |-> IdleEx]
  /\ queue = <<>>
  /\ futs = <<>>
  /\ futures = [id \in 1..UnknownId |-> NoFuture]
  /\ futures_lock = Free
  /\ ncalls = 0
  /\ BusInit
  /\ run = [t \in Threads |-> IdleRun]
  /\ WorldInit

NextHistory ==
  \/ \E t \in Threads, type \in EmitTypes : BusEmit(t, type, 1)
  \/ \E a \in Actors : EmitLock(a)
  \/ \E a \in Actors : EmitUnlock(a)
  \/ \E a \in Actors : EmitReturn(a)
  \/ \E t \in Threads, limit \in HistoryLimits :
       GetHistory(t, NoType, NoFilter, limit)

SpecHistory == InitHistory /\ [][NextHistory]_vars

(* C14: each emit appends its signal and, once the history holds           *)
(* max_history signals, drops the oldest one, so that after N emits the    *)
(* history is the min(N, max_history) most recent signals in emission      *)
(* order; history() with a limit that covers them returns them most        *)
(* recent first.                                                           *)
C14_EmitStep ==
  \A a \in Actors :
    (em[a] # <<>> /\ Top(a).pc = "lock" /\ em'[a] # em[a]) =>
      LET n == IF Len(history) + 1 > max_history THEN max_history
               ELSE Len(history) + 1
      IN /\ Len(history') = n
         /\ history'[n] = Top(a).signal
         /\ \A k \in 1..(n - 1) :
              history'[k] = history[Len(history) - (n - 1) + k]

C14_HistoryStep ==
  \A t \in Threads :
    (call'[t] # call[t] /\ call'[t].op = "history"
       /\ call'[t].ids[3] >= max_history) =>
      /\ Len(call'[t].ret) = Len(history)
      /\ \A k \in 1..Len(history) :
           call'[t].ret[k] = history[Len(history) + 1 - k]

----------------------------------------------------------------------------
(* unsubscribe and the emits in progress. *)

(* A call of unsubscribe removes the entries of one id, all of them, and   *)
(* returns whether there was one.                                          *)
UnsubscribeStep ==
  \A t \in Threads :
    (call'[t] # call[t] /\ call'[t].op = "unsubscribe") =>
      \E sid \in SubscriberIds :
        LET Other(sub) == sub.subscriber_id # sid
        IN /\ subscribers' = SelectSeq(subscribers, Other)
           /\ call'[t].ret = (subscribers' # subscribers)

(* A callback is invoked only while its subscription is registered. *)
InvokedWhileRegistered ==
  Len(delivered') > Len(delivered) =>
    \E k \in 1..Len(subscribers) :
      subscribers[k] = delivered'[Len(delivered')].sub

(* C29: unsubscribe(id) removes every entry registered under id and        *)
(* returns true iff there was one, and from then on no callback            *)
(* registered under id is invoked, not by an emit already in progress on   *)
(* another thread either.                                                  *)
C29_NoInvocationAfterUnsubscribe ==
  [][UnsubscribeStep /\ InvokedWhileRegistered]_vars

(* The first half of C29 on its own *)
UnsubscribeRemovesAll == [][UnsubscribeStep]_vars

----------------------------------------------------------------------------
(* get_global_emitter and reset_global_emitter.  The test outside the      *)
(* lock, the section under _global_emitter_lock and the read of the return *)
(* statement are steps of their own.  The clock ticks when a reset assigns *)
(* None, and a call of get_global_emitter notes the clock when it is       *)
(* called and when it returns.                                             *)

(* A thread calls get_global_emitter(). *)
GetGlobalEmitter(t) ==
  /\ Idle(t)
  /\ ncalls < MaxGlobalCalls
  /\ ncalls' = ncalls + 1
  /\ call' = [call EXCEPT ![t] =
                [IdleCall EXCEPT !.op = "get_global_emitter", !.pc = "test",
                                 !.n = ncalls', !.ids = <<clock>>]]
  /\ UNCHANGED <<tasks, clock, history, emitting, ex, queue, futs, futures,
                 futures_lock, bus, run, world>>

(* if _global_emitter is None: *)
GetTest(t) ==
  /\ call[t].op = "get_global_emitter"
  /\ call[t].pc = "test"
  /\ call' = [call EXCEPT ![t].pc = IF global_emitter = NoEmitter
                                    THEN "lock" ELSE "return"]
  /\ UNCHANGED <<tasks, clock, history, emitting, ex, queue, futs, futures,
                 futures_lock, ncalls, bus, run, world>>

(* with _global_emitter_lock: if _global_emitter is None:                  *)
(*     _global_emitter = SignalEmitter()                                   *)
GetLocked(t) ==
  /\ call[t].op = "get_global_emitter"
  /\ call[t].pc = "lock"
  /\ global_emitter_lock = Free
  /\ global_emitter_lock' = t
  /\ IF global_emitter = NoEmitter
     THEN /\ emitters' = emitters + 1
          /\ global_emitter' = emitters'
     ELSE UNCHANGED <<emitters, global_emitter>>
  /\ call' = [call EXCEPT ![t].pc = "unlock"]
  /\ UNCHANGED <<tasks, clock, history, emitting, ex, queue, futs, futures,
                 futures_lock, ncalls, bus, run, orchestrators>>

(* the end of a `with _global_emitter_lock` block *)
GlobalUnlock(t) ==
  /\ call[t].op \in {"get_global_emitter", "reset_global_emitter"}
  /\ call[t].pc = "unlock"
  /\ global_emitter_lock' = Free
  /\ call' = [call EXCEPT ![t].pc = IF call[t].op = "get_global_emitter"
                                    THEN "return" ELSE "returned"]
  /\ UNCHANGED <<tasks, clock, history, emitting, ex, queue, futs, futures,
                 futures_lock, ncalls, bus, run, orchestrators,
                 global_emitter, emitters>>

(* return _global_emitter: the global is read again *)
get_returns(emitter) == emitter

GetReturn(t) ==
  /\ call[t].op = "get_global_emitter"
  /\ call[t].pc = "return"
  /\ call' = [call EXCEPT ![t].pc = "returned",
                          ![t].ret = get_returns(global_emitter),
                          ![t].ids = Append(call[t].ids, clock)]
  /\ UNCHANGED <<tasks, clock, history, emitting, ex, queue, futs, futures,
                 futures_lock, ncalls, bus, run, world>>

(* A thread calls reset_global_emitter(). *)
ResetGlobalEmitter(t) ==
  /\ Idle(t)
  /\ ncalls < MaxGlobalCalls
  /\ ncalls' = ncalls + 1
  /\ call' = [call EXCEPT ![t] =
                [IdleCall EXCEPT !.op = "reset_global_emitter",
                                 !.pc = "lock", !.n = ncalls']]
  /\ UNCHANGED <<tasks, clock, history, emitting, ex, queue, futs, futures,
                 futures_lock, bus, run, world>>

(* with _global_emitter_lock: _global_emitter = None *)
ResetLocked(t) ==
  /\ call[t].op = "reset_global_emitter"
  /\ call[t].pc = "lock"
  /\ global_emitter_lock = Free
  /\ global_emitter_lock' = t
  /\ global_emitter' = NoEmitter
  /\ clock' = clock + 1
  /\ call' = [call EXCEPT ![t].pc = "unlock"]
  /\ UNCHANGED <<tasks, history, emitting, ex, queue, futs, futures,
                 futures_lock, ncalls, bus, run, orchestrators, emitters>>

NextGlobal ==
  \/ \E t \in Threads : GetGlobalEmitter(t)
  \/ \E t \in Threads : GetTest(t)
  \/ \E t \in Threads : GetLocked(t)
  \/ \E t \in Threads : GlobalUnlock(t)
  \/ \E t \in Threads : GetReturn(t)
  \/ \E t \in Threads : ResetGlobalEmitter(t)
  \/ \E t \in Threads : ResetLocked(t)

SpecGlobal == Init /\ [][NextGlobal]_vars

Got(t) == call[t].op = "get_global_emitter" /\ call[t].pc = "returned"

(* Between the moment the call was made and its return no reset assigned. *)
NoResetSince(t, c) == call[t].ids = <<c, c>>

(* Two calls with no reset from the first call to the last return have    *)
(* returned the same emitter.                                              *)
SameEmitterWithoutReset ==
  \A t, u \in Threads :
    (Got(t) /\ Got(u) /\ \E c \in 1..clock :
       NoResetSince(t, c) /\ NoResetSince(u, c))
      => call[t].ret = call[u].ret

(* C27: get_global_emitter returns an emitter, never None, and two calls   *)
(* with no reset between them return the same emitter, under every         *)
(* interleaving with reset_global_emitter.                                 *)
C27_GlobalEmitterNeverNone ==
  /\ \A t \in Threads : Got(t) => call[t].ret # NoEmitter
  /\ SameEmitterWithoutReset

----------------------------------------------------------------------------
(* Concurrent calls of execute_tasks_parallel. *)

(* C26: a call of execute_tasks_parallel on distinct ids returns when the  *)
(* submissions it made itself are done, with an entry for every id it      *)
(* submitted, whatever another call does at the same time on the same ids. *)
C26_CallsDoNotInterfere ==
  \A t \in Threads :
    ( /\ call[t].op = "executeParallel"
      /\ call[t].pc = "returned"
      /\ \A i, j \in 1..Len(call[t].ids) :
           call[t].ids[i] = call[t].ids[j] => i = j )
      => \A f \in call[t].submitted :
           /\ futs[f].state = "done"
           /\ futs[f].task_id \in DOMAIN call[t].results

----------------------------------------------------------------------------
(* The order of the lifecycle signals of one task. *)

(* C25: a completed signal of a task is in the history of the bus only     *)
(* behind a started signal of the same task.                               *)
C25_StartedBeforeCompleted ==
  \A k \in 1..Len(history) :
    history[k].signal_type = "task_completed" =>
      \E j \in 1..(k - 1) :
        /\ history[j].signal_type = "task_started"
        /\ history[j].task_id = history[k].task_id

----------------------------------------------------------------------------
(* The worker pool under execute_tasks_parallel. *)

(* The registry holds one task more than the pool has threads, each with  *)
(* a callable; one caller submits as many tasks as the pool has threads    *)
(* and the other caller submits the last one, each in one call.            *)
PoolTasks == PoolSize + 1

PoolIds(t) == IF t = "t1" THEN [k \in 1..PoolSize |-> k] ELSE <<PoolTasks>>

InitPool ==
  /\ tasks = [k \in 1..PoolTasks |->
                TaskMetadata(NORMAL, {}, "parallel",
                             IF k = 1 THEN "raise" ELSE "ok")]
  /\ clock = 1
  /\ history = <<>>
  /\ emitting = [a \in Actors |-> NoSignal]
  /\ call = [t \in Threads |-> IdleCall]
  /\ ex = [a \in Actors |-> IdleEx]
  /\ queue = <<>>
  /\ futs = <<>>
  /\ futures = [id \in 1..UnknownId |-> NoFuture]
  /\ futures_lock = Free
  /\ ncalls = 0
  /\ BusInit
  /\ run = [t \in Threads |-> IdleRun]
  /\ WorldInit

NextPool ==
  \/ \E t \in Threads :
       call[t].pc = "idle" /\ ExecuteTasksParallel(t, PoolIds(t))
  \/ \E t \in Threads : ParSubmit(t)
  \/ \E t \in Threads : ParGet(t)
  \/ \E t \in Threads : ParResult(t)
  \/ \E t \in Threads : ParCleanup(t)
  \/ \E w \in Workers : WorkerTake(w)
  \/ \E w \in Workers : ExecGet(w)
  \/ \E w \in Workers : ExecStart(w)
  \/ \E w \in Workers : ExecCall(w)
  \/ \E w \in Workers : ExecComplete(w)
  \/ \E w \in Workers : ExecFail(w)
  \/ \E w \in Workers : WorkerFinish(w)
  \/ \E a \in Actors : Emit(a)

SpecPool == InitPool /\ [][NextPool]_vars

(* Every thread that can take a step takes one in the end. *)
SpecPoolFair == SpecPool /\ WF_vars(NextPool)

(* The submissions that a pool thread is running. *)
Executing == {f \in 1..Len(futs) : futs[f].state = "running"}

MaxFuts == PoolTasks

(* C24: at most PoolSize submissions of execute_tasks_parallel are being   *)
(* executed at any moment, whatever the callers submit, and every          *)
(* submission that waits in the queue is run to its end.                   *)
C24_AtMostPoolSizeExecuting ==
  /\ [](Cardinality(Executing) <= PoolSize)
  /\ \A f \in 1..MaxFuts :
       (f <= Len(futs) /\ futs[f].state = "pending")
         ~> (f <= Len(futs) /\ futs[f].state = "done")

(* Two threads have submitted, every pool thread is inside a callable's    *)
(* execute_task, and a surplus submission waits.                           *)
C24_Witness ==
  /\ Cardinality(Executing) = PoolSize
  /\ \A w \in Workers : ex[w].pc \in {"complete", "fail"} /\ ex[w].invoked
  /\ queue # <<>>
  /\ \E f, g \in 1..Len(futs) : futs[f].owner # futs[g].owner

----------------------------------------------------------------------------
(* get_history on short histories: the bus holds up to MaxHist signals of  *)
(* two kinds and two tasks, and the threads query it with either filter    *)
(* set or not and every limit from 0 to MaxLimit.                          *)

RECURSIVE Histories(_)
Histories(n) ==
  IF n = 0 THEN {<<>>}
  ELSE Histories(n - 1) \cup
       { Append(h, SignalPayload(type, id, n)) :
           h \in {g \in Histories(n - 1) : Len(g) = n - 1},
           type \in EmitTypes, id \in 1..2 }

InitQuery ==
  /\ tasks = <<>>
  /\ clock = MaxHist + 1
  /\ history \in Histories(MaxHist)
  /\ emitting = [a \in Actors |-> NoSignal]
  /\ call = [t \in Threads |-> IdleCall]
  /\ ex = [a \in Actors |-> IdleEx]
  /\ queue = <<>>
  /\ futs = <<>>
  /\ futures = [id \in 1..UnknownId |-> NoFuture]
  /\ futures_lock = Free
  /\ ncalls = 0
  /\ BusInit
  /\ run = [t \in Threads |-> IdleRun]
  /\ WorldInit

NextQuery ==
  \E t \in Threads, type \in {NoType, "task_completed"},
     id \in {NoFilter, 1}, limit \in 0..MaxLimit :
    GetHistory(t, type, id, limit)

SpecQuery == InitQuery /\ [][NextQuery]_vars

(* The retained signals that pass the filters, oldest first. *)
Passing(hist, signal_type, task_id) ==
  LET Passes(signal) ==
        /\ signal_type = NoType \/ signal.signal_type = signal_type
        /\ task_id = NoFilter \/ signal.task_id = task_id
  IN SelectSeq(hist, Passes)

(* C23: history(kindFilter, taskFilter, limit) with limit >= 0 returns the *)
(* min(limit, number of passing signals) most recent passing signals, most *)
(* recent first; with limit = 0 it returns none.                           *)
C23_HistoryAtMostLimit ==
  [][ \A t \in Threads :
        (call'[t] # call[t] /\ call'[t].op = "history") =>
          LET passing == Passing(history, call'[t].ids[1], call'[t].ids[2])
              limit == call'[t].ids[3]
              n == IF limit < Len(passing) THEN limit ELSE Len(passing)
          IN /\ Len(call'[t].ret) = n
             /\ \A k \in 1..n :
                  call'[t].ret[k] = passing[Len(passing) + 1 - k] ]_vars

----------------------------------------------------------------------------
(* The registry and the bus with their locks.  start_task, complete_task   *)
(* and fail_task are the section under TaskManager._lock, the exit from    *)
(* it, and the emit that follows; the bus has the two subscriptions of     *)
(* TaskOrchestrator._setup_signal_handlers, whose completion handler calls *)
(* get_ready_tasks.                                                        *)

(* The two subscriptions of _setup_signal_handlers: the callbacks are      *)
(* closures over the orchestrator that makes them.                         *)
setup_signal_handlers(self) ==
  << [ subscriber_id |-> "orchestrator_completion",
       signal_types |-> {"task_completed"}, callback |-> "ready",
       task_filter |-> NoFilter, self |-> self ],
     [ subscriber_id |-> "orchestrator_failure",
       signal_types |-> {"task_failed"}, callback |-> "record",
       task_filter |-> NoFilter, self |-> self ] >>

OrchestratorSubscriptions == setup_signal_handlers(1)

RegistryOps == {"start", "complete", "fail"}

RegistryGuard(op, id) ==
  CASE op = "start" -> start_guard(id)
    [] op = "complete" -> complete_guard(id)
    [] op = "fail" -> fail_guard(id)

RegistryApplied(op, id) ==
  CASE op = "start" -> Started(id)
    [] op = "complete" -> Completed(id, "r1")
    [] op = "fail" -> Failed(id, "e1")

RegistrySignal(op, id) ==
  CASE op = "start" -> Signal("task_started", id)
    [] op = "complete" -> Signal("task_completed", id)
    [] op = "fail" -> Signal("task_failed", id)

(* start_task, complete_task and fail_task with the emit inside the        *)
(* `with self._lock` block                                                 *)
registry_lock_kept(lock) == lock

(* The registry lock when a transition leaves its `with self._lock` block. *)
registry_lock_exit(lock) == Released(lock)

(* A thread calls start_task, complete_task or fail_task. *)
RegistryCall(t, op, id) ==
  /\ Idle(t)
  /\ em[t] = <<>>
  /\ ncalls < MaxCalls
  /\ ncalls' = ncalls + 1
  /\ call' = [call EXCEPT ![t] =
                [IdleCall EXCEPT !.op = op, !.pc = "lock", !.n = ncalls',
                                 !.ids = <<id>>]]
  /\ UNCHANGED <<tasks, clock, history, emitting, ex, queue, futs, futures,
                 futures_lock, bus, run, world>>

(* with self._lock: the lookup, the test of the status and the transition *)
RegistryEnter(t) ==
  /\ call[t].op \in RegistryOps
  /\ call[t].pc = "lock"
  /\ Acquirable(registry_lock, t)
  /\ registry_lock' = Acquired(registry_lock, t)
  /\ LET op == call[t].op
         id == call[t].ids[1]
     IN IF RegistryGuard(op, id)
        THEN /\ tasks' = RegistryApplied(op, id)
             /\ clock' = clock + 1
             /\ emitting' = [emitting EXCEPT ![t] = RegistrySignal(op, id)]
             /\ call' = [call EXCEPT ![t].pc = "unlock", ![t].ret = TRUE]
        ELSE /\ call' = [call EXCEPT ![t].pc = "unlock", ![t].ret = FALSE]
             /\ UNCHANGED <<tasks, clock, emitting>>
  /\ UNCHANGED <<history, ex, queue, futs, futures, futures_lock, ncalls,
                 subscribers, bus_lock, em, delivered, run, world>>

(* the end of the `with self._lock` block, by return False or by falling   *)
(* through to the emit                                                     *)
RegistryExit(t) ==
  /\ call[t].op \in RegistryOps
  /\ call[t].pc = "unlock"
  /\ registry_lock' = registry_lock_exit(registry_lock)
  /\ call' = [call EXCEPT ![t].pc = IF emitting[t] = NoSignal THEN "returned"
                                    ELSE "emit"]
  /\ UNCHANGED <<tasks, clock, history, emitting, ex, queue, futs, futures,
                 futures_lock, ncalls, subscribers, bus_lock, em, delivered,
                 run, world>>

(* self._emitter.emit(SignalPayload(...)) *)
EmitCall(t) ==
  /\ call[t].pc = "emit"
  /\ emitting[t] # NoSignal
  /\ em[t] = <<>>
  /\ em' = [em EXCEPT ![t] = <<EmitFrame(emitting[t])>>]
  /\ emitting' = [emitting EXCEPT ![t] = NoSignal]
  /\ UNCHANGED <<tasks, clock, history, call, ex, queue, futs, futures,
                 futures_lock, ncalls, subscribers, bus_lock, registry_lock,
                 delivered, run, world>>

(* _check_and_start_dependent_tasks that starts the first ready task *)
check_and_start_dependent_tasks_autostart(tbl) ==
  LET ready == get_ready_tasks(tbl)
  IN IF ready = <<>> THEN tbl
     ELSE [tbl EXCEPT ![ready[1]].status = "running"]

(* The registry after _check_and_start_dependent_tasks: the ready tasks    *)
(* are counted for the log and nothing is started.                         *)
check_and_start_dependent_tasks(tbl) == tbl

(* on_task_completed: _check_and_start_dependent_tasks reads               *)
(* get_ready_tasks under the registry lock and logs.                       *)
CallbackRegistry(a) ==
  /\ em[a] # <<>>
  /\ Top(a).pc = "callback"
  /\ Top(a).matching[Top(a).k].callback = "ready"
  /\ Acquirable(registry_lock, a)
  /\ em' = SetTop(a, [Top(a) EXCEPT !.pc = "deliver", !.k = Top(a).k + 1])
  /\ tasks' = check_and_start_dependent_tasks(tasks)
  /\ UNCHANGED <<clock, history, emitting, call, ex, queue, futs,
                 futures, futures_lock, ncalls, subscribers, bus_lock,
                 registry_lock, delivered, run, world>>

InitLocks ==
  /\ tasks = <<>>
  /\ clock = 1
  /\ history = <<>>
  /\ emitting = [a \in Actors |-> NoSignal]
  /\ call = [t \in Threads |-> IdleCall]
  /\ ex = [a \in Actors |-> IdleEx]
  /\ queue = <<>>
  /\ futs = <<>>
  /\ futures = [id \in 1..UnknownId |-> NoFuture]
  /\ futures_lock = Free
  /\ ncalls = 0
  /\ subscribers = OrchestratorSubscriptions
  /\ bus_lock = RFree
  /\ registry_lock = RFree
  /\ em = [a \in Actors |-> <<>>]
  /\ delivered = <<>>
  /\ run = [t \in Threads |-> IdleRun]
  /\ WorldOne

NextLocks ==
  \/ /\ Len(tasks) < MaxLockTasks
     /\ registry_lock = RFree
     /\ CreateTask(NORMAL, {}, "sequential", NoCallable)
  \/ \E t \in Threads, op \in RegistryOps, id \in CallIds :
       RegistryCall(t, op, id)
  \/ \E t \in Threads : RegistryEnter(t)
  \/ \E t \in Threads : RegistryExit(t)
  \/ \E t \in Threads : EmitCall(t)
  \/ \E a \in Actors : EmitLock(a)
  \/ \E a \in Actors : EmitUnlock(a)
  \/ \E a \in Actors : Deliver(a)
  \/ \E a \in Actors : DeliverEnter(a)
  \/ \E a \in Actors : CallbackRegistry(a)
  \/ \E a \in Actors : EmitReturn(a)

SpecLocks == InitLocks /\ [][NextLocks]_vars

(* The actor is inside a call of the bus: about to call emit, waiting for  *)
(* the bus lock, or in the callback loop.                                  *)
InBus(a) ==
  \/ em[a] # <<>>
  \/ a \in Threads /\ call[a].pc = "emit"

(* The actor stands before the registry lock that another actor holds. *)
WaitsForRegistry(a) ==
  /\ \/ a \in Threads /\ call[a].op \in RegistryOps /\ call[a].pc = "lock"
     \/ /\ em[a] # <<>>
        /\ Top(a).pc = "callback"
        /\ Top(a).matching[Top(a).k].callback = "ready"
  /\ ~Acquirable(registry_lock, a)

(* C16: a thread inside a call of the bus never holds the registry lock,   *)
(* and no interleaving of start, complete and fail with the handlers that  *)
(* call back into the registry is stuck: whoever waits for the registry    *)
(* lock or for the bus lock waits for a holder that is inside its locked   *)
(* section, which it leaves in one step.                                   *)
C16_RegistryLockNeverHeldInBus ==
  /\ \A a \in Actors : InBus(a) => registry_lock.holder # a
  /\ \A a \in Actors :
       WaitsForRegistry(a) =>
         /\ registry_lock.holder \in Threads
         /\ call[registry_lock.holder].pc = "unlock"
  /\ \A a \in Actors :
       WaitsForBus(a) =>
         /\ bus_lock.holder \in Actors
         /\ em[bus_lock.holder] # <<>>
         /\ Top(bus_lock.holder).pc = "unlock"
         /\ registry_lock.holder # bus_lock.holder

(* The completion handler, called by emit, stands before the registry      *)
(* lock while another thread is inside a transition.                       *)
C16_Witness ==
  \E a \in Actors :
    /\ em[a] # <<>>
    /\ Top(a).pc = "callback"
    /\ Top(a).signal.signal_type = "task_completed"
    /\ registry_lock.holder \in Threads \ {a}

----------------------------------------------------------------------------
(* The handlers of the orchestrator with work waiting: the registry holds  *)
(* a task and a second one that depends on it, and the callers start,      *)
(* complete and fail them.                                                 *)

InitObserve ==
  /\ tasks = << TaskMetadata(NORMAL, {}, "sequential", NoCallable),
                TaskMetadata(NORMAL, {1}, "sequential", NoCallable) >>
  /\ clock = 1
  /\ history = <<>>
  /\ emitting = [a \in Actors |-> NoSignal]
  /\ call = [t \in Threads |-> IdleCall]
  /\ ex = [a \in Actors |-> IdleEx]
  /\ queue = <<>>
  /\ futs = <<>>
  /\ futures = [id \in 1..UnknownId |-> NoFuture]
  /\ futures_lock = Free
  /\ ncalls = 0
  /\ subscribers = OrchestratorSubscriptions
  /\ bus_lock = RFree
  /\ registry_lock = RFree
  /\ em = [a \in Actors |-> <<>>]
  /\ delivered = <<>>
  /\ run = [t \in Threads |-> IdleRun]
  /\ WorldOne

NextObserve ==
  \/ \E t \in Threads, op \in RegistryOps, id \in 1..Len(tasks) :
       RegistryCall(t, op, id)
  \/ \E t \in Threads : RegistryEnter(t)
  \/ \E t \in Threads : RegistryExit(t)
  \/ \E t \in Threads : EmitCall(t)
  \/ \E a \in Actors : EmitLock(a)
  \/ \E a \in Actors : EmitUnlock(a)
  \/ \E a \in Actors : Deliver(a)
  \/ \E a \in Actors : DeliverEnter(a)
  \/ \E a \in Actors : CallbackRegistry(a)
  \/ \E a \in Actors : EmitReturn(a)

SpecObserve == InitObserve /\ [][NextObserve]_vars

OrchestratorIds == {"orchestrator_completion", "orchestrator_failure"}

(* emit is calling, or is inside, a handler of the orchestrator. *)
Handling(a) ==
  /\ em[a] # <<>>
  /\ Top(a).pc \in {"deliver", "callback"}
  /\ Top(a).k <= Len(Top(a).matching)
  /\ Top(a).matching[Top(a).k].subscriber_id \in OrchestratorIds

----------------------------------------------------------------------------
(* Orchestrators on one bus.  Every TaskOrchestrator takes the bus from    *)
(* get_global_emitter, subscribes its two handlers in its constructor and  *)
(* unsubscribes in shutdown; other subscribers use the same bus.           *)

(* TaskOrchestrator(): a thread constructs orchestrator o. *)
Construct(t, o) ==
  /\ Idle(t)
  /\ em[t] = <<>>
  /\ orchestrators[o] = "none"
  /\ ncalls < MaxOrchCalls
  /\ ncalls' = ncalls + 1
  /\ call' = [call EXCEPT ![t] =
                [IdleCall EXCEPT !.op = "construct", !.pc = "completion",
                                 !.n = ncalls', !.ids = <<o>>]]
  /\ orchestrators' = [orchestrators EXCEPT ![o] = "setup"]
  /\ UNCHANGED <<tasks, clock, history, emitting, ex, queue, futs, futures,
                 futures_lock, bus, run, global_emitter, global_emitter_lock,
                 emitters>>

(* self._emitter.subscribe(...) for the completion handler, then for the   *)
(* failure handler                                                         *)
ConstructSubscribe(t) ==
  /\ call[t].op = "construct"
  /\ call[t].pc \in {"completion", "failure"}
  /\ Acquirable(bus_lock, t)
  /\ LET o == call[t].ids[1]
         k == IF call[t].pc = "completion" THEN 1 ELSE 2
     IN /\ subscribers' = Subscribed(subscribers, setup_signal_handlers(o)[k])
        /\ call' = [call EXCEPT ![t].pc = IF k = 1 THEN "failure"
                                          ELSE "returned"]
        /\ orchestrators' = IF k = 1 THEN orchestrators
                            ELSE [orchestrators EXCEPT ![o] = "live"]
  /\ UNCHANGED <<tasks, clock, history, emitting, ex, queue, futs, futures,
                 futures_lock, ncalls, bus_lock, registry_lock, em, delivered,
                 run, global_emitter, global_emitter_lock, emitters>>

(* shutdown(): the pool is drained (nothing is submitted here) and the     *)
(* two unsubscribe calls follow.                                           *)
Shutdown(t, o) ==
  /\ Idle(t)
  /\ em[t] = <<>>
  /\ orchestrators[o] = "live"
  /\ queue = <<>>
  /\ \A w \in Workers : ex[w].pc = "idle"
  /\ ncalls < MaxOrchCalls
  /\ ncalls' = ncalls + 1
  /\ call' = [call EXCEPT ![t] =
                [IdleCall EXCEPT !.op = "shutdown", !.pc = "completion",
                                 !.n = ncalls', !.ids = <<o>>]]
  /\ orchestrators' = [orchestrators EXCEPT ![o] = "shut"]
  /\ UNCHANGED <<tasks, clock, history, emitting, ex, queue, futs, futures,
                 futures_lock, bus, run, global_emitter, global_emitter_lock,
                 emitters>>

(* self._emitter.unsubscribe("orchestrator_completion"), then              *)
(* self._emitter.unsubscribe("orchestrator_failure")                       *)
ShutdownUnsubscribe(t) ==
  /\ call[t].op = "shutdown"
  /\ call[t].pc \in {"completion", "failure"}
  /\ Acquirable(bus_lock, t)
  /\ subscribers' = Unsubscribed(subscribers, "orchestrator_" \o call[t].pc)
  /\ call' = [call EXCEPT ![t].pc = IF call[t].pc = "completion"
                                    THEN "failure" ELSE "returned"]
  /\ UNCHANGED <<tasks, clock, history, emitting, ex, queue, futs, futures,
                 futures_lock, ncalls, bus_lock, registry_lock, em, delivered,
                 run, world>>

(* Another subscriber of the same bus. *)
OtherSubscription ==
  Subscription("s1", {"task_completed", "task_failed"}, "record", NoFilter)

(* A thread subscribes the other subscriber. *)
SubscribeOther(t) ==
  /\ \A k \in 1..Len(subscribers) : subscribers[k].subscriber_id # "s1"
  /\ ncalls < MaxOrchCalls
  /\ Subscribe(t, OtherSubscription)

(* A thread emits a completed or a failed signal. *)
EmitOutcome(t, type) ==
  /\ ncalls < MaxOrchCalls
  /\ BusEmit(t, type, 1)

InitShutdown ==
  /\ tasks = <<>>
  /\ clock = 1
  /\ history = <<>>
  /\ emitting = [a \in Actors |-> NoSignal]
  /\ call = [t \in Threads |-> IdleCall]
  /\ ex = [a \in Actors |-> IdleEx]
  /\ queue = <<>>
  /\ futs = <<>>
  /\ futures = [id \in 1..UnknownId |-> NoFuture]
  /\ futures_lock = Free
  /\ ncalls = 0
  /\ BusInit
  /\ run = [t \in Threads |-> IdleRun]
  /\ orchestrators = [o \in Orchestrators |-> "none"]
  /\ global_emitter = 1
  /\ global_emitter_lock = Free
  /\ emitters = 1

NextShutdown ==
  \/ \E t \in Threads, o \in Orchestrators : Construct(t, o)
  \/ \E t \in Threads : ConstructSubscribe(t)
  \/ \E t \in Threads, o \in Orchestrators : Shutdown(t, o)
  \/ \E t \in Threads : ShutdownUnsubscribe(t)
  \/ \E t \in Threads : SubscribeOther(t)
  \/ \E t \in Threads, type \in {"task_completed", "task_failed"} :
       EmitOutcome(t, type)
  \/ \E a \in Actors : EmitLock(a)
  \/ \E a \in Actors : EmitUnlock(a)
  \/ \E a \in Actors : Deliver(a)
  \/ \E a \in Actors : DeliverEnter(a)
  \/ \E a \in Actors : CallbackRegistry(a)
  \/ \E a \in Actors : EmitReturn(a)

SpecShutdown == InitShutdown /\ [][NextShutdown]_vars

(* The subscription was made by the constructor of orchestrator o. *)
RegisteredBy(sub, o) == "self" \in DOMAIN sub /\ sub.self = o

(* C22: each unsubscribe of shutdown removes the entries that the          *)
(* constructor of the same orchestrator made under that id and leaves      *)
(* every other entry, another orchestrator's included, where it is.        *)
C22_ShutdownRemovesOwnOnly ==
  [][ \A t \in Threads :
        call[t].op = "shutdown" /\ call'[t].pc # call[t].pc =>
          LET Kept(sub) ==
                ~ /\ RegisteredBy(sub, call[t].ids[1])
                  /\ sub.subscriber_id = "orchestrator_" \o call[t].pc
          IN subscribers' = SelectSeq(subscribers, Kept) ]_vars

----------------------------------------------------------------------------
(* TaskOrchestrator.run_until_complete.  The registry holds pending tasks  *)
(* when the loop is called: each was created with dependencies on any ids  *)
(* (a caller can add to the dependency set of the TaskMetadata that        *)
(* get_task hands out, which is how a cycle comes about), in either mode,  *)
(* with a callable that returns, one that raises, or through the registry  *)
(* alone with none.  The loop calls execute_tasks_parallel and             *)
(* execute_tasks_sequential on its own thread.                             *)

(* The loop test with the cap counted one too far *)
loop_continues_once_more(frame) == frame.iteration <= frame.max_iterations

(* while iteration < max_iterations *)
loop_continues(frame) == frame.iteration < frame.max_iterations

(* [t for t in ready_tasks if t.execution_mode == mode] as ids *)
OfMode(ready, mode) ==
  LET InMode(id) == tasks[id].execution_mode = mode
  IN SelectSeq(ready, InMode)

(* A thread calls run_until_complete(max_iterations). *)
RunUntilComplete(t, max_iterations) ==
  /\ Idle(t)
  /\ run[t].pc = "idle"
  /\ ncalls = 0
  /\ ncalls' = ncalls + 1
  /\ run' = [run EXCEPT ![t] = [IdleRun EXCEPT !.pc = "loop",
                                  !.max_iterations = max_iterations]]
  /\ UNCHANGED <<tasks, clock, history, emitting, call, ex, queue, futs,
                 futures, futures_lock, bus, world>>

(* The loop test, iteration += 1 and ready_tasks = get_ready_tasks(); the  *)
(* loop is left when the test fails.                                       *)
RunIterate(t) ==
  /\ run[t].pc = "loop"
  /\ run' = [run EXCEPT ![t] =
               IF loop_continues(run[t])
               THEN [run[t] EXCEPT
                       !.iteration = run[t].iteration + 1,
                       !.ready = get_ready_tasks(tasks),
                       !.pc = IF get_ready_tasks(tasks) = <<>> THEN "pending"
                              ELSE "parallel"]
               ELSE [run[t] EXCEPT !.pc = "returned"]]
  /\ UNCHANGED <<tasks, clock, history, emitting, call, ex, queue, futs,
                 futures, futures_lock, ncalls, bus, world>>

(* if not ready_tasks: break when has_pending_tasks() is false, else       *)
(* sleep and continue                                                      *)
RunHasPending(t) ==
  /\ run[t].pc = "pending"
  /\ run' = [run EXCEPT ![t] =
               IF ~has_pending_tasks
               THEN [run[t] EXCEPT !.pc = "returned", !.early = TRUE]
               ELSE [run[t] EXCEPT !.pc = "loop"]]
  /\ UNCHANGED <<tasks, clock, history, emitting, call, ex, queue, futs,
                 futures, futures_lock, ncalls, bus, world>>

(* if parallel_tasks: self.execute_tasks_parallel(task_ids) *)
RunParallel(t) ==
  /\ run[t].pc = "parallel"
  /\ LET task_ids == OfMode(run[t].ready, "parallel")
     IN IF task_ids # <<>>
        THEN /\ call' = [call EXCEPT ![t] =
                           [IdleCall EXCEPT !.op = "executeParallel",
                                            !.pc = "submit", !.n = ncalls,
                                            !.ids = task_ids]]
             /\ run' = [run EXCEPT ![t].pc = "parallel_wait"]
        ELSE /\ run' = [run EXCEPT ![t].pc = "sequential"]
             /\ UNCHANGED call
  /\ UNCHANGED <<tasks, clock, history, emitting, ex, queue, futs, futures,
                 futures_lock, ncalls, bus, world>>

(* execute_tasks_parallel has returned *)
RunParallelDone(t) ==
  /\ run[t].pc = "parallel_wait"
  /\ call[t].pc = "returned"
  /\ run' = [run EXCEPT ![t].pc = "sequential"]
  /\ UNCHANGED <<tasks, clock, history, emitting, call, ex, queue, futs,
                 futures, futures_lock, ncalls, bus, world>>

(* if sequential_tasks: self.execute_tasks_sequential(task_ids) *)
RunSequential(t) ==
  /\ run[t].pc = "sequential"
  /\ LET task_ids == OfMode(run[t].ready, "sequential")
     IN IF task_ids # <<>>
        THEN /\ call' = [call EXCEPT ![t] =
                           [IdleCall EXCEPT !.op = "executeSequential",
                                            !.pc = "lookup", !.n = ncalls,
                                            !.ids = task_ids]]
             /\ run' = [run EXCEPT ![t].pc = "sequential_wait"]
        ELSE /\ run' = [run EXCEPT ![t].pc = "loop"]
             /\ UNCHANGED call
  /\ UNCHANGED <<tasks, clock, history, emitting, ex, queue, futs, futures,
                 futures_lock, ncalls, bus, world>>

(* execute_tasks_sequential has returned: the next iteration *)
RunSequentialDone(t) ==
  /\ run[t].pc = "sequential_wait"
  /\ call[t].pc = "returned"
  /\ ex[t].pc = "idle"
  /\ emitting[t] = NoSignal
  /\ run' = [run EXCEPT ![t].pc = "loop"]
  /\ UNCHANGED <<tasks, clock, history, emitting, call, ex, queue, futs,
                 futures, futures_lock, ncalls, bus, world>>

RunRegistries ==
  UNION { [1..n -> [dependencies : SUBSET ((1..n) \cup {UnknownId}),
                    execution_mode : TaskExecutionMode,
                    task_func : Callables \cup {NoCallable}]]
          : n \in 0..MaxRunTasks }

InitRun ==
  /\ \E tbl \in RunRegistries :
       tasks = [k \in 1..Len(tbl) |->
                  TaskMetadata(NORMAL, tbl[k].dependencies,
                               tbl[k].execution_mode, tbl[k].task_func)]
  /\ clock = 1
  /\ history = <<>>
  /\ emitting = [a \in Actors |-> NoSignal]
  /\ call = [t \in Threads |-> IdleCall]
  /\ ex = [a \in Actors |-> IdleEx]
  /\ queue = <<>>
  /\ futs = <<>>
  /\ futures = [id \in 1..UnknownId |-> NoFuture]
  /\ futures_lock = Free
  /\ ncalls = 0
  /\ BusInit
  /\ run = [t \in Threads |-> IdleRun]
  /\ WorldInit

NextRun ==
  \/ \E t \in Threads, max_iterations \in 0..MaxIterations :
       RunUntilComplete(t, max_iterations)
  \/ \E t \in Threads : RunIterate(t)
  \/ \E t \in Threads : RunHasPending(t)
  \/ \E t \in Threads : RunParallel(t)
  \/ \E t \in Threads : RunParallelDone(t)
  \/ \E t \in Threads : RunSequential(t)
  \/ \E t \in Threads : RunSequentialDone(t)
  \/ \E t \in Threads : SeqCollect(t)
  \/ \E t \in Threads : ParSubmit(t)
  \/ \E t \in Threads : ParGet(t)
  \/ \E t \in Threads : ParResult(t)
  \/ \E t \in Threads : ParCleanup(t)
  \/ \E w \in Workers : WorkerTake(w)
  \/ \E w \in Workers : WorkerFinish(w)
  \/ \E t \in Threads : OrchExecuteTask(t)
  \/ \E a \in Actors : ExecGet(a)
  \/ \E a \in Actors : ExecStart(a)
  \/ \E a \in Actors : ExecCall(a)
  \/ \E a \in Actors : ExecComplete(a)
  \/ \E a \in Actors : ExecFail(a)
  \/ \E a \in Actors : Emit(a)

SpecRun == InitRun /\ [][NextRun]_vars

(* The threads and the pool workers keep running: a step that can be taken *)
(* is taken.                                                               *)
SpecRunFair == SpecRun /\ WF_vars(NextRun)

(* The loop on tasks of different priorities: MaxRunTasks tasks without   *)
(* dependencies, each of low or high priority, in either mode, with a      *)
(* callable that returns or raises.                                        *)
PriorityRegistries ==
  [1..MaxRunTasks -> [priority : {LOW, HIGH},
                      execution_mode : TaskExecutionMode,
                      task_func : Callables]]

InitPriority ==
  /\ \E tbl \in PriorityRegistries :
       tasks = [k \in 1..Len(tbl) |->
                  TaskMetadata(tbl[k].priority, {}, tbl[k].execution_mode,
                               tbl[k].task_func)]
  /\ clock = 1
  /\ history = <<>>
  /\ emitting = [a \in Actors |-> NoSignal]
  /\ call = [t \in Threads |-> IdleCall]
  /\ ex = [a \in Actors |-> IdleEx]
  /\ queue = <<>>
  /\ futs = <<>>
  /\ futures = [id \in 1..UnknownId |-> NoFuture]
  /\ futures_lock = Free
  /\ ncalls = 0
  /\ BusInit
  /\ run = [t \in Threads |-> IdleRun]
  /\ WorldInit

SpecPriority == InitPriority /\ [][NextRun]_vars

(* The loop with another thread that calls fail_task once while it runs. *)
NextRunEnv ==
  \/ NextRun
  \/ \E t \in Threads, id \in 1..Len(tasks), e \in Errors :
       /\ run[t].pc = "idle"
       /\ ncalls = 1
       /\ \E r \in Threads : run[r].pc \notin {"idle", "returned"}
       /\ FailTask(t, id, e)

SpecRunEnv == InitRun /\ [][NextRunEnv]_vars

----------------------------------------------------------------------------
(* Properties of run_until_complete *)

Running(t) == run[t].pc \notin {"idle", "returned"}

(* C17: the loop makes at most max_iterations iterations and returns; it   *)
(* returns with iterations left only from an iteration whose               *)
(* get_ready_tasks() was empty and whose has_pending_tasks() found no      *)
(* pending or running task.                                                *)
C17_ReturnStep ==
  \A t \in Threads :
    (Running(t) /\ run'[t].pc = "returned") =>
      \/ run[t].iteration = run[t].max_iterations /\ ~run'[t].early
      \/ /\ run'[t].early
         /\ run[t].ready = <<>>
         /\ \A id \in 1..Len(tasks) :
              tasks[id].status \notin {"pending", "running"}

C17_AtMostMaxIterations ==
  \A t \in Threads : run[t].iteration <= run[t].max_iterations

C17_BoundedAndReturns ==
  /\ [][C17_ReturnStep]_vars
  /\ []C17_AtMostMaxIterations
  /\ \A t \in Threads : Running(t) ~> (run[t].pc = "returned")

(* The loop has returned with an iteration left, from an iteration that    *)
(* found the registry's tasks all finished.                                *)
C17_Witness ==
  \E t \in Threads :
    /\ run[t].pc = "returned"
    /\ run[t].early
    /\ run[t].iteration < run[t].max_iterations
    /\ Len(tasks) > 0

DepsCompleted(id) ==
  \A d \in tasks[id].dependencies : Exists(d) /\ tasks[d].status = "completed"

(* C18: during run_until_complete a task is started, and its callable is   *)
(* invoked, only while every task of its dependency set is completed.      *)
C18_Step ==
  \A a \in Actors :
    /\ (ex[a].pc = "start" /\ ex'[a].pc = "call" /\ ex'[a].start_ok)
         => DepsCompleted(ex[a].id)
    /\ (ex[a].pc = "call" /\ ex'[a].invoked) => DepsCompleted(ex[a].id)

C18_StartedOnlyAfterDependencies == [][C18_Step]_vars

(* The ids a task depends on, directly or through other tasks. *)
RECURSIVE DepsWithin(_, _)
DepsWithin(id, n) ==
  IF n = 0 \/ ~Exists(id) THEN {}
  ELSE tasks[id].dependencies
         \cup UNION { DepsWithin(d, n - 1) : d \in tasks[id].dependencies }

TransDeps(id) == DepsWithin(id, Len(tasks))

Acyclic == \A id \in 1..Len(tasks) : id \notin TransDeps(id)

DepsExist == \A id \in 1..Len(tasks) : tasks[id].dependencies \subseteq 1..Len(tasks)

(* The task's callable and the callables of all it depends on return. *)
Succeeds(id) == \A d \in {id} \cup TransDeps(id) : tasks[d].task_func = "ok"

(* C19: with an acyclic graph of existing dependencies and max_iterations  *)
(* at least the number of tasks, every task whose callable and whose       *)
(* dependencies' callables succeed is completed when the loop returns.     *)
C19_RunToCompletion ==
  \A t \in Threads :
    ( /\ run[t].pc = "returned"
      /\ Acyclic
      /\ DepsExist
      /\ run[t].max_iterations >= Len(tasks) )
    => \A id \in 1..Len(tasks) : Succeeds(id) => tasks[id].status = "completed"

(* The task has a dependency that can never complete. *)
HasDeadDependency(id) ==
  \E d \in tasks[id].dependencies :
    \/ ~Exists(d)
    \/ tasks[d].status = "failed"
    \/ d \in TransDeps(d)

(* C20: a task with a dependency that failed, lies on a cycle or names no  *)
(* task is never started and stays pending; the loop then returns at the   *)
(* cap only, and has_pending_tasks() is true after it.                     *)
C20_DeadDependencyStaysPending ==
  /\ \A id \in 1..Len(tasks) :
       HasDeadDependency(id) =>
         /\ tasks[id].status = "pending"
         /\ tasks[id].started_at = NoTime
         /\ \A a \in Actors : ex[a].pc # "idle" => ex[a].id # id
  /\ \A t \in Threads :
       (run[t].pc = "returned" /\ \E id \in 1..Len(tasks) : HasDeadDependency(id))
         => /\ ~run[t].early
            /\ run[t].iteration = run[t].max_iterations
            /\ has_pending_tasks

(* The loop has returned at its cap: task 1 failed in the first iteration, *)
(* task 2 depends on it and is still pending.                              *)
C20_Witness ==
  \E t \in Threads :
    /\ run[t].pc = "returned"
    /\ run[t].iteration = 2
    /\ Len(tasks) = 2
    /\ tasks[1].status = "failed"
    /\ tasks[2].dependencies = {1}
    /\ tasks[2].status = "pending"

(* C28: of two tasks that get_ready_tasks returned in one iteration of     *)
(* run_until_complete the one of strictly higher priority is started       *)
(* first, whatever their execution modes are.                              *)
C28_StartedInPriorityOrder ==
  \A t \in Threads :
    \A i, j \in Range(run[t].ready) :
      ( /\ tasks[i].priority > tasks[j].priority
        /\ tasks[j].started_at # NoTime )
      => /\ tasks[i].started_at # NoTime
         /\ tasks[i].started_at[1] < tasks[j].started_at[1]

(* C28 for two tasks that run in the same mode *)
StartedInPriorityOrderWithinSequential ==
  \A t \in Threads :
    \A i, j \in Range(run[t].ready) :
      ( /\ tasks[i].priority > tasks[j].priority
        /\ tasks[i].execution_mode = "sequential"
        /\ tasks[j].execution_mode = "sequential"
        /\ tasks[j].started_at # NoTime )
      => /\ tasks[i].started_at # NoTime
         /\ tasks[i].started_at[1] < tasks[j].started_at[1]

----------------------------------------------------------------------------
(* execute_task on tasks with dependencies: the registry holds a task and  *)
(* a second one that depends on it, each with a callable that returns or   *)
(* raises, and the threads call execute_task on either.                    *)

InitDeps ==
  /\ \E f, g \in Callables :
       tasks = << TaskMetadata(NORMAL, {}, "sequential", f),
                  TaskMetadata(NORMAL, {1}, "sequential", g) >>
  /\ clock = 1
  /\ history = <<>>
  /\ emitting = [a \in Actors |-> NoSignal]
  /\ call = [t \in Threads |-> IdleCall]
  /\ ex = [a \in Actors |-> IdleEx]
  /\ queue = <<>>
  /\ futs = <<>>
  /\ futures = [id \in 1..UnknownId |-> NoFuture]
  /\ futures_lock = Free
  /\ ncalls = 0
  /\ BusInit
  /\ run = [t \in Threads |-> IdleRun]
  /\ WorldInit

NextDeps ==
  \/ \E t \in Threads, id \in 1..Len(tasks) : ExecuteTask(t, id)
  \/ \E t \in Threads : ExecuteTaskReturn(t)
  \/ ExecSteps

SpecDeps == InitDeps /\ [][NextDeps]_vars

(* C30: a running task has every task of its dependency set completed,     *)
(* through whichever entry point of the orchestrator it was started.       *)
C30_RunningHasDependenciesCompleted ==
  \A id \in 1..Len(tasks) :
    tasks[id].status = "running" => DepsCompleted(id)

====
